---- MODULE Spec2Model ----
(***************************************************************************)
(* A model of the lnmonja server: the alert engine (AlertManager), the     *)
(* ingest path of the gRPC server (Register, StreamMetrics,                *)
(* processMetrics) and the metric write path of the storage layer          *)
(* (TimeSeriesDB / BadgerStore).                                           *)
(*                                                                         *)
(* Time is counted in minutes (the unit of the default rules' For).        *)
(* Float values are modelled by integers plus the NaN marker.              *)
(***************************************************************************)
EXTENDS Integers, Sequences, FiniteSets, TLC

\* ------------------------------------------------------------------ bounds
MaxTime == 2
MaxAlerts == 2
MaxCalls == 2
MaxBatch == 1
MaxStreams == 2
MaxSessions == 2
MaxFrames == 2
MaxHealthTime == 4
MaxClients == 2
\* The capacity of WebSocketServer.broadcast, 1000 in the code.
BroadcastCap == 1
\* The capacity of WebSocketClient.send, 256 in the code.
SendCap == 1
MaxAgentTime == 4
MaxCollectors == 1
MaxReconnects == 2
\* The capacity of Agent.metricsCh, 1000 in the code.
MetricsChCap == 1
MaxCollectTime == 3
MaxSessionTime == 2

\* ------------------------------------------------- constants of the program
HighCPUFor == 2
HighCPUThreshold == 80
HighMemoryFor == 2
HighMemoryThreshold == 90
LowDiskFor == 5
LowDiskThreshold == 85

VARIABLES
    now,            \* the wall clock read by time.Now() / time.Since()
    rules,          \* AlertManager.rules: rule name -> rule
    alerts,         \* the models.Alert objects allocated so far: ID -> alert
    activeAlerts,   \* AlertManager.activeAlerts: alert key -> ID of the alert
    savedAlerts,    \* the record last handed to store.SaveAlert, per alert ID
    dispatched,     \* per alert ID and state: number of `go sendNotification`
    nextAlert,      \* number of alert IDs generated so far
    labelMaps,      \* the label maps (Go maps are references): reference -> map
    procs,          \* the goroutines running CheckMetrics / processMetrics
    lastEval,       \* the rule evaluation made by the last step, if any
    sessions,       \* the Session objects by ID, and whether GRPCServer.sessions
                    \* holds them (Registered)
    nextSession,    \* number of session IDs generated so far
    streams,        \* the StreamMetrics handlers: stream -> position and session
    nodes,          \* TimeSeriesDB.nodes: node ID -> node record
    nmNodes,        \* NodeManager.nodes: node ID -> node info
    compression,    \* StorageConfig.Compression
    store,          \* the metric keys of the Badger store: key -> value
    blobs,          \* the compressed batches written to the store
    committed,      \* per stream: the batches (by receive number) committed
    lastWrite,      \* the WriteMetrics call made by the last step, if any
    lastCall,       \* the query, sweep or status update made by the last step
    srvNodes,       \* Server.nodeMgr.nodes: node ID -> node info
    lastBeat,       \* per node: the time of its last registration or heartbeat
    marks,          \* per node: times it was set UNHEALTHY since its last beat
    broadcast,      \* WebSocketServer.broadcast: the messages in the channel
    clients,        \* WebSocketServer.clients: the clients in the map
    conns,          \* the WebSocketClient objects created so far
    clientsMu,      \* WebSocketServer.clientsMu: its holders and waiters
    worker,         \* the handleBroadcasts goroutine
    wsProcs,        \* the goroutines of ServeHTTP, readPump and the publishers
    wsServer,       \* WebSocketServer: its context, and the position of Close
    agent,          \* the Agent: its context, client, session ID and queue state
    metricsCh,      \* Agent.metricsCh: the collector batches in the channel
    batch,          \* processMetrics: the buffer, one buffering time per sample
    batchTimer,     \* processMetrics: batchTimer
    agentProcs,     \* the goroutines of the agent
    lastNet,        \* SystemCollector.lastNet: interface -> its last counters
    lastDisk        \* SystemCollector.lastDisk: device -> its last counters

alertVars == <<alerts, activeAlerts, savedAlerts, dispatched, nextAlert,
               labelMaps>>
ingestVars == <<sessions, nextSession, streams, nodes>>
storeVars == <<compression, store, blobs, committed>>
healthVars == <<srvNodes, lastBeat, marks>>
busVars == <<broadcast, clients, conns, clientsMu, worker, wsProcs, wsServer>>
agentVars == <<agent, metricsCh, batch, batchTimer, agentProcs>>
collectorVars == <<lastNet, lastDisk>>
vars == <<now, rules, alerts, activeAlerts, savedAlerts, dispatched, nextAlert,
          labelMaps,
          procs, lastEval, sessions, nextSession, streams, nodes, nmNodes,
          compression, store, blobs, committed, lastWrite, lastCall,
          srvNodes, lastBeat, marks,
          broadcast, clients, conns, clientsMu, worker, wsProcs, wsServer,
          agent, metricsCh, batch, batchTimer, agentProcs, lastNet, lastDisk>>

\* ------------------------------------------------------------------ values
NaN == 0 - 1
IsNaN(v) == v = NaN

Nodes == {"n1", "n2"}
CPU == "system_cpu_usage"

NoLabels == <<>>

Metric(name, value, ts) ==
    [Name |-> name, Value |-> value, Timestamp |-> ts, Labels |-> NoLabels,
     NodeID |-> ""]

\* --------------------------------------------------------------- the rules
\* The nil map.
Nil == ""

\* An AlertRule; Labels is the reference to the label map of the rule, which
\* a rule literal allocates of its own.
Rule(name, metric, op, threshold, for, enabled) ==
    [Name |-> name, MetricName |-> metric, Operator |-> op,
     Threshold |-> threshold, For |-> for, Enabled |-> enabled,
     Labels |-> name]

\* The labels every default rule is configured with.
ConfiguredLabels == [severity |-> "warning", category |-> "system"]

defaultRules ==
    { Rule("HighCPUUsage", CPU, ">", HighCPUThreshold, HighCPUFor, TRUE),
      Rule("HighMemoryUsage", "system_memory_usage_percent", ">",
           HighMemoryThreshold, HighMemoryFor, TRUE),
      Rule("LowDiskSpace", "system_disk_usage_percent", ">",
           LowDiskThreshold, LowDiskFor, TRUE) }

loadDefaultRules ==
    [n \in {r.Name : r \in defaultRules} |->
        CHOOSE r \in defaultRules : r.Name = n]

\* The rules added through AddRule.
AddableRules ==
    { [Rule("Instant", CPU, ">", HighCPUThreshold, 0, TRUE)
          EXCEPT !.Labels = Nil] }

evaluateRule(rule, value) ==
    CASE rule.Operator = ">"  -> ~IsNaN(value) /\ value > rule.Threshold
      [] rule.Operator = "<"  -> ~IsNaN(value) /\ value < rule.Threshold
      [] rule.Operator = ">=" -> ~IsNaN(value) /\ value >= rule.Threshold
      [] rule.Operator = "<=" -> ~IsNaN(value) /\ value <= rule.Threshold
      [] rule.Operator = "==" -> ~IsNaN(value) /\ value = rule.Threshold
      [] rule.Operator = "!=" -> IsNaN(value) \/ value # rule.Threshold
      [] OTHER -> FALSE

\* ------------------------------------------------------- the alert engine
Pending == "pending"
Firing == "firing"
Resolved == "resolved"
AlertStates == {Pending, Firing, Resolved}

GenerateAlertID(n) == "alert-" \o ToString(n)

alertKey(nodeID, ruleName) == nodeID \o ":" \o ruleName

\* store.SaveAlert(alert): the store keeps the record under the alert's ID.
SaveAlert(alert) ==
    savedAlerts' = [k \in DOMAIN savedAlerts \cup {alert.ID} |->
                       IF k = alert.ID THEN alert ELSE savedAlerts[k]]

\* go am.sendNotification(alert): one dispatch, for the alert in the state it
\* has when the statement runs.
sendNotification(alert) ==
    dispatched' = [k \in DOMAIN dispatched \cup {alert.ID} |->
        LET old == IF k \in DOMAIN dispatched THEN dispatched[k]
                   ELSE [s \in AlertStates |-> 0]
        IN IF k = alert.ID THEN [old EXCEPT ![alert.State] = @ + 1] ELSE old]

\* time.Since(existingAlert.ActiveAt) < rule.For
withinFor(existingAlert, rule) == now - existingAlert.ActiveAt < rule.For

initialStateAlwaysPending(rule) == Pending

\* The state a new alert is created in.
initialState(rule) == IF rule.For = 0 THEN Firing ELSE Pending

putActiveByID(key, alert) ==
    activeAlerts' = [k \in DOMAIN activeAlerts \cup {alert.ID} |->
                        IF k = alert.ID THEN alert.ID ELSE activeAlerts[k]]

\* am.activeAlerts[alertKey] = alert
putActive(key, alert) ==
    activeAlerts' = [k \in DOMAIN activeAlerts \cup {key} |->
                        IF k = key THEN alert.ID ELSE activeAlerts[k]]

updateExistingRenotify(existingAlert, metric) ==
    LET updated == [existingAlert EXCEPT !.Value = metric.Value] IN
    /\ alerts' = [alerts EXCEPT ![existingAlert.ID] = updated]
    /\ SaveAlert(updated)
    /\ sendNotification(updated)
    /\ UNCHANGED <<activeAlerts, nextAlert, labelMaps>>

\* fireAlert, the branch of an alert that is already in the active table and
\* past its For duration.
updateExisting(existingAlert, metric) ==
    LET updated == [existingAlert EXCEPT !.Value = metric.Value] IN
    /\ alerts' = [alerts EXCEPT ![existingAlert.ID] = updated]
    /\ SaveAlert(updated)
    /\ UNCHANGED <<activeAlerts, dispatched, nextAlert, labelMaps>>

\* m[k] = v on a Go map.
put(m, k, v) == [x \in DOMAIN m \cup {k} |-> IF x = k THEN v ELSE m[x]]

\* The label map a new alert gets: Labels: rule.Labels copies the reference,
\* not the map; a nil map is replaced by a map of the alert's own.
labelsRef(rule, alertID) == IF rule.Labels = Nil THEN alertID ELSE rule.Labels

\* alert.Labels["node"] = nodeID; alert.Labels["metric"] = metric.Name
setLabels(ref, nodeID, metricName) ==
    LET old == IF ref \in DOMAIN labelMaps THEN labelMaps[ref] ELSE <<>>
    IN labelMaps' = put(labelMaps, ref,
                        put(put(old, "node", nodeID), "metric", metricName))

\* fireAlert, the branch that creates a new alert. Node and Metric are the
\* node and the metric the alert is created for.
createAlert(key, nodeID, rule, metric) ==
    LET alert == [ID |-> GenerateAlertID(nextAlert + 1),
                  Name |-> rule.Name,
                  Labels |-> labelsRef(rule, GenerateAlertID(nextAlert + 1)),
                  Node |-> nodeID,
                  Metric |-> metric.Name,
                  State |-> initialState(rule),
                  Value |-> metric.Value,
                  ActiveAt |-> now,
                  ResolvedAt |-> {},
                  CreatedAt |-> now]
    IN /\ nextAlert < MaxAlerts
       /\ nextAlert' = nextAlert + 1
       /\ alerts' = [k \in DOMAIN alerts \cup {alert.ID} |->
                        IF k = alert.ID THEN alert ELSE alerts[k]]
       /\ setLabels(alert.Labels, nodeID, metric.Name)
       /\ IF rule.For = 0 THEN sendNotification(alert) ELSE UNCHANGED dispatched
       /\ putActive(key, alert)
       /\ SaveAlert(alert)

fireAlert(nodeID, rule, metric) ==
    LET key == alertKey(nodeID, rule.Name) IN
    IF key \in DOMAIN activeAlerts
    THEN LET existingAlert == alerts[activeAlerts[key]] IN
         IF withinFor(existingAlert, rule)
         THEN UNCHANGED alertVars
         ELSE updateExisting(existingAlert, metric)
    ELSE createAlert(key, nodeID, rule, metric)

deleteActiveForgotten(key) == UNCHANGED activeAlerts

\* delete(am.activeAlerts, alertKey)
deleteActive(key) ==
    activeAlerts' = [k \in DOMAIN activeAlerts \ {key} |-> activeAlerts[k]]

resolveAlert(nodeID, ruleName) ==
    LET key == alertKey(nodeID, ruleName) IN
    IF key \notin DOMAIN activeAlerts
    THEN UNCHANGED alertVars
    ELSE LET alert == [alerts[activeAlerts[key]] EXCEPT
                          !.State = Resolved, !.ResolvedAt = {now}]
         IN /\ alerts' = [alerts EXCEPT ![alert.ID] = alert]
            /\ SaveAlert(alert)
            /\ sendNotification(alert)
            /\ deleteActive(key)
            /\ UNCHANGED <<nextAlert, labelMaps>>

\* ------------------------------------------------------------ CheckMetrics
Procs == 1..MaxCalls

\* pc: "idle", "write" (processMetrics before WriteMetrics), "check" (inside
\* CheckMetrics), "status" (processMetrics before UpdateNodeStatus).
\* caller: "api" for a direct CheckMetrics call, "ingest" for processMetrics.
\* stream, seq, auth: the frame a processMetrics goroutine was started for
\* (the stream, the frame's receive number on it, and whether the frame's
\* session_id was in the registry when it was received).
IdleProc == [pc |-> "idle", caller |-> "", node |-> "", metrics |-> <<>>,
             done |-> {}, stream |-> 0, seq |-> 0, auth |-> TRUE]

\* The goroutine after CheckMetrics has returned.
returned(pr) ==
    IF pr.caller = "ingest"
    THEN [IdleProc EXCEPT !.pc = "status", !.caller = "ingest", !.node = pr.node]
    ELSE IdleProc

\* The rules the loop of CheckMetrics does not skip for a metric.
matching(metric) ==
    {n \in DOMAIN rules : rules[n].Enabled /\ rules[n].MetricName = metric.Name}

IsRelevant(metric) == matching(metric) # {}

\* The state of the alert held under the key, "none" when there is none.
stateOf(key) ==
    IF key \in DOMAIN activeAlerts THEN alerts[activeAlerts[key]].State ELSE "none"

NoEval == {}

\* One iteration of the inner loop of CheckMetrics by the call pr of
\* goroutine p: one rule evaluated against the current metric, under alertsMu.
evaluate(p, pr) ==
    LET metric == Head(pr.metrics) IN
    \E r \in matching(metric) \ pr.done :
        LET rule == rules[r]
            key == alertKey(pr.node, r)
            holds == evaluateRule(rule, metric.Value)
            done == pr.done \cup {r}
            more == matching(metric) \ done # {}
        IN /\ IF holds THEN fireAlert(pr.node, rule, metric)
                       ELSE resolveAlert(pr.node, r)
           /\ lastEval' = {[node |-> pr.node, rule |-> r, holds |-> holds,
                            value |-> metric.Value, before |-> stateOf(key),
                            id |-> IF key \in DOMAIN activeAlerts
                                   THEN activeAlerts[key]
                                   ELSE IF holds THEN GenerateAlertID(nextAlert + 1)
                                   ELSE "",
                            changed |-> alertVars' # alertVars]}
           /\ procs' = [procs EXCEPT ![p] =
                IF more THEN [pr EXCEPT !.done = done]
                ELSE IF Len(pr.metrics) > 1
                     THEN [pr EXCEPT !.metrics = Tail(pr.metrics), !.done = {}]
                     ELSE returned(pr)]

\* CheckMetrics takes rulesMu.RLock and runs the first iteration of its loop
\* that is not skipped.
CheckMetrics(p, nodeID, metrics) ==
    LET rest == SelectSeq(metrics, IsRelevant) IN
    /\ procs[p].pc = "idle"
    /\ rest # <<>>
    /\ evaluate(p, [IdleProc EXCEPT !.pc = "check", !.caller = "api",
                                    !.node = nodeID, !.metrics = rest])
    /\ lastWrite' = {}
    /\ lastCall' = {}
    /\ UNCHANGED <<healthVars, busVars, agentVars, collectorVars>>
    /\ UNCHANGED <<now, rules, ingestVars, nmNodes, storeVars>>

\* A later iteration of the loop.
CheckMetricsStep(p) ==
    /\ procs[p].pc = "check"
    /\ evaluate(p, procs[p])
    /\ lastWrite' = {}
    /\ lastCall' = {}
    /\ UNCHANGED <<healthVars, busVars, agentVars, collectorVars>>
    /\ UNCHANGED <<now, rules, ingestVars, nmNodes, storeVars>>

\* rulesMu.Lock() waits for the CheckMetrics calls that hold the read lock.
rulesWritable == \A p \in Procs : procs[p].pc # "check"

AddRule(rule) ==
    /\ rulesWritable
    /\ rule.Name # ""
    /\ rules' = [n \in DOMAIN rules \cup {rule.Name} |->
                    IF n = rule.Name THEN rule ELSE rules[n]]
    /\ lastEval' = NoEval
    /\ lastWrite' = {}
    /\ lastCall' = {}
    /\ UNCHANGED <<healthVars, busVars, agentVars, collectorVars>>
    /\ UNCHANGED <<now, alertVars, procs, ingestVars, nmNodes, storeVars>>

RemoveRule(ruleName) ==
    /\ rulesWritable
    /\ ruleName \in DOMAIN rules
    /\ rules' = [n \in DOMAIN rules \ {ruleName} |-> rules[n]]
    /\ lastEval' = NoEval
    /\ lastWrite' = {}
    /\ lastCall' = {}
    /\ UNCHANGED <<healthVars, busVars, agentVars, collectorVars>>
    /\ UNCHANGED <<now, alertVars, procs, ingestVars, nmNodes, storeVars>>

\* The clock advances, up to max.
Advance(max) ==
    /\ now < max
    /\ now' = now + 1

Tick ==
    /\ Advance(MaxTime)
    /\ lastEval' = NoEval
    /\ lastWrite' = {}
    /\ lastCall' = {}
    /\ UNCHANGED <<healthVars, busVars, agentVars, collectorVars>>
    /\ UNCHANGED <<rules, alertVars, procs, ingestVars, nmNodes, storeVars>>

\* The server process ends and a new one starts on the same store:
\* NewAlertManager makes empty maps and loads the default rules; it reads
\* nothing from the store. The goroutines of the old process are gone, what
\* was saved in the store and the notifications sent stay.
Restart ==
    /\ rules' = loadDefaultRules
    /\ activeAlerts' = <<>>
    /\ labelMaps' = [k \in DOMAIN labelMaps \cup DOMAIN loadDefaultRules |->
                        IF k \in DOMAIN loadDefaultRules THEN ConfiguredLabels
                        ELSE labelMaps[k]]
    /\ procs' = [p \in Procs |-> IdleProc]
    /\ lastCall' = {[op |-> "restart"]}
    /\ lastEval' = NoEval
    /\ lastWrite' = {}
    /\ UNCHANGED <<now, alerts, savedAlerts, dispatched, nextAlert, ingestVars,
                   nmNodes, storeVars, healthVars, busVars, agentVars,
                   collectorVars>>

\* ----------------------------------------------------------- the storage
\* The label keys in use, in sort.Strings order.
LabelKeys == <<"collector", "node">>

RECURSIVE joinLabels(_, _)
joinLabels(labels, i) ==
    IF i > Len(LabelKeys) THEN ""
    ELSE LET k == LabelKeys[i]
             rest == joinLabels(labels, i + 1)
         IN IF k \in DOMAIN labels
            THEN k \o "=" \o labels[k] \o (IF rest = "" THEN "" ELSE "," \o rest)
            ELSE rest

\* The hash is modelled by the string it is taken of.
HashLabels(labels) ==
    IF DOMAIN labels = {} THEN "" ELSE "sha256:" \o joinLabels(labels, 1)

\* "metric:<name>:<timestamp>:<labels hash>", modelled by its parts.
encodeMetricKey(metric) ==
    <<"metric", metric.Name, metric.Timestamp, HashLabels(metric.Labels)>>

\* json.Marshal fails on a value JSON cannot represent.
encodeFails(metric) == IsNaN(metric.Value)

encodeMetricValue(metric) ==
    [v |-> metric.Value, l |-> metric.Labels, n |-> metric.NodeID]

\* The metrics of a batch whose key is set in the transaction.
encodable(metrics) == {i \in 1..Len(metrics) : ~encodeFails(metrics[i])}

\* The store after the transaction of BadgerStore.WriteMetrics has set the
\* first n metrics of the batch.
RECURSIVE txnSet(_, _, _)
txnSet(kv, metrics, n) ==
    IF n = 0 THEN kv
    ELSE LET before == txnSet(kv, metrics, n - 1)
             m == metrics[n]
             key == encodeMetricKey(m)
         IN IF encodeFails(m) THEN before
            ELSE [k \in DOMAIN before \cup {key} |->
                     IF k = key THEN encodeMetricValue(m) ELSE before[k]]

\* BadgerStore.WriteMetrics. fail = 0: no txn.Set fails and the transaction
\* commits; fail = i > 0: txn.Set of the i-th metric fails, or the commit
\* fails after it, and db.Update discards the transaction.
BadgerWriteMetrics(metrics, fail, call) ==
    LET ok == fail = 0 \/ fail \notin encodable(metrics) IN
    /\ store' = IF ok THEN txnSet(store, metrics, Len(metrics)) ELSE store
    /\ lastWrite' = {[call EXCEPT !.stored = IF ok THEN encodable(metrics) ELSE {},
                                  !.err = ~ok]}
    /\ UNCHANGED blobs

\* CompressMetrics marshals the whole batch to JSON and fails when one value
\* cannot be marshalled.
compressFails(metrics) == \E i \in 1..Len(metrics) : encodeFails(metrics[i])

\* BadgerStore.WriteCompressedMetrics: the compressed batch is written as one
\* value, or not at all.
WriteCompressedMetrics(metrics, fail, call) ==
    /\ blobs' = IF fail = 0 THEN blobs \cup {metrics} ELSE blobs
    /\ lastWrite' = {[call EXCEPT !.stored = IF fail = 0 THEN 1..Len(metrics) ELSE {},
                                  !.err = fail # 0]}
    /\ UNCHANGED store

\* The record of a WriteMetrics call: the batch, the positions of the batch
\* that were stored, whether an error was returned, and the stream, receive
\* number and session check of the frame the batch came in (stream 0 for a
\* direct call).
WriteCall(metrics, stream, seq, auth) ==
    [batch |-> metrics, stored |-> {}, err |-> FALSE,
     stream |-> stream, seq |-> seq, auth |-> auth]

\* TimeSeriesDB.WriteMetrics
WriteMetrics(metrics, fail, call) ==
    IF Len(metrics) = 0
    THEN /\ lastWrite' = {call}
         /\ UNCHANGED <<store, blobs>>
    ELSE IF compression /\ ~compressFails(metrics)
         THEN WriteCompressedMetrics(metrics, fail, call)
         ELSE BadgerWriteMetrics(metrics, fail, call)

\* The samples a reader of the store can see.
StoredSamples ==
    {[Name |-> k[2], Timestamp |-> k[3], Value |-> store[k].v,
      Labels |-> store[k].l, NodeID |-> store[k].n] : k \in DOMAIN store}
    \cup UNION {{b[i] : i \in 1..Len(b)} : b \in blobs}

\* ------------------------------------------------------------- the queries
\* A float computed by the query, kept exact: num / den with den a power of 2.
Exact(v) == [num |-> v, den |-> 1]

\* (sample.Value + metric.Value) / 2
halfSum(x, v) ==
    LET n == x.num + v * x.den IN
    IF n % 2 = 0 THEN [num |-> n \div 2, den |-> x.den]
    ELSE [num |-> n, den |-> 2 * x.den]

Query(name, labels, start, end, step) ==
    [MetricName |-> name, Labels |-> labels, StartTime |-> start,
     EndTime |-> end, Step |-> step]

\* TimeSeriesDB.QueryMetrics builds the query string: the metric name and,
\* when the query has labels, the first pair of a slice filled by ranging over
\* the label map, which Go iterates in an unspecified order. The string is
\* modelled by its parts; pick is the key that came first.
queryStr(query, pick) ==
    IF DOMAIN query.Labels = {}
    THEN [name |-> query.MetricName, pairs |-> <<>>]
    ELSE [name |-> query.MetricName, pairs |-> <<<<pick, query.Labels[pick]>>>>]

\* The keys that can come first when the label map is ranged over.
firstKeys(query) ==
    IF DOMAIN query.Labels = {} THEN {""} ELSE DOMAIN query.Labels

\* parseSimpleQuery: the metric name and one filter per pair of the string.
\* Names, keys and values are tokens without blanks, braces, commas, quotes
\* and equal signs, on which the splitting and trimming change nothing.
parseSimpleQuery(str) ==
    [name |-> str.name,
     filters |-> [k \in {str.pairs[i][1] : i \in 1..Len(str.pairs)} |->
                    LET i == CHOOSE j \in 1..Len(str.pairs) :
                                 /\ str.pairs[j][1] = k
                                 /\ \A l \in 1..Len(str.pairs) :
                                       str.pairs[l][1] = k => l <= j
                    IN str.pairs[i][2]]]

\* BadgerStore.matchesFilters; a label the metric does not have reads as "".
matchesFilters(metric, filters) ==
    \A k \in DOMAIN filters :
        (IF k \in DOMAIN metric.Labels THEN metric.Labels[k] ELSE "") = filters[k]

\* BadgerStore.seriesKey: "k=v," for every label, in the order of the keys.
RECURSIVE seriesKeyFrom(_, _)
seriesKeyFrom(labels, i) ==
    IF i > Len(LabelKeys) THEN ""
    ELSE LET k == LabelKeys[i] IN
         (IF k \in DOMAIN labels THEN k \o "=" \o labels[k] \o "," ELSE "")
         \o seriesKeyFrom(labels, i + 1)

seriesKey(labels) == seriesKeyFrom(labels, 1)

\* The decimal digits of a timestamp, as written into the key by %d.
RECURSIVE Digits(_)
Digits(n) == IF n < 10 THEN <<n>> ELSE Append(Digits(n \div 10), n % 10)

\* Byte order of two digit strings.
RECURSIVE lexLess(_, _)
lexLess(a, b) ==
    IF a = <<>> THEN b # <<>>
    ELSE IF b = <<>> THEN FALSE
    ELSE IF Head(a) # Head(b) THEN Head(a) < Head(b)
    ELSE lexLess(Tail(a), Tail(b))

\* The iterator of the transaction: the keys with the prefix
\* "metric:<name>:" in byte order. Keys with the same timestamp differ in the
\* labels hash only; the order among them is fixed but not modelled further.
RECURSIVE scan(_)
scan(keys) ==
    IF keys = {} THEN <<>>
    ELSE LET first == CHOOSE k \in keys :
                          \A l \in keys : ~lexLess(Digits(l[3]), Digits(k[3]))
         IN <<first>> \o scan(keys \ {first})

prefixKeys(metricName) == {k \in DOMAIN store : k[2] = metricName}

\* BadgerStore.decodeMetric
decodeMetric(key) ==
    [Name |-> key[2], Value |-> store[key].v, Timestamp |-> key[3],
     Labels |-> store[key].l, NodeID |-> store[key].n]

\* time.Time.Truncate(step) for a step that divides a day: the time is
\* returned unchanged for step <= 0.
Truncate(t, step) == IF step <= 0 THEN t ELSE t - (t % step)

\* The samples of a series after the metric was added to its bucket.
RECURSIVE addSample(_, _, _, _)
addSample(samples, roundedTime, value, i) ==
    IF i > Len(samples)
    THEN Append(samples, [Timestamp |-> roundedTime, Value |-> Exact(value)])
    ELSE IF samples[i].Timestamp = roundedTime
         THEN [samples EXCEPT ![i].Value = halfSum(@, value)]
         ELSE addSample(samples, roundedTime, value, i + 1)

\* The loop of BadgerStore.QueryMetrics over the first n keys of the scan.
RECURSIVE collect(_, _, _, _, _, _)
collect(keys, n, filters, start, end, step) ==
    IF n = 0 THEN <<>>
    ELSE LET seriesMap == collect(keys, n - 1, filters, start, end, step)
             metric == decodeMetric(keys[n])
             sk == seriesKey(metric.Labels)
             old == IF sk \in DOMAIN seriesMap THEN seriesMap[sk].Samples ELSE <<>>
         IN IF \/ metric.Timestamp < start
               \/ metric.Timestamp > end
               \/ ~matchesFilters(metric, filters)
            THEN seriesMap
            ELSE [k \in DOMAIN seriesMap \cup {sk} |->
                    IF k = sk
                    THEN [Labels |-> metric.Labels,
                          Samples |-> addSample(old, Truncate(metric.Timestamp, step),
                                                metric.Value, 1)]
                    ELSE seriesMap[k]]

\* BadgerStore.QueryMetrics: the series of the map, as a set (the slice is
\* filled by ranging over the map).
BadgerQueryMetrics(str, start, end, step) ==
    LET parsed == parseSimpleQuery(str)
        keys == scan(prefixKeys(parsed.name))
        seriesMap == collect(keys, Len(keys), parsed.filters, start, end, step)
    IN {seriesMap[k] : k \in DOMAIN seriesMap}

\* TimeSeriesDB.QueryMetrics when pick is the label key that came first.
QueryMetrics(query, pick) ==
    BadgerQueryMetrics(queryStr(query, pick), query.StartTime, query.EndTime,
                       query.Step)

\* TimeSeriesDB.SaveNode
SaveNode(node) ==
    nodes' = [k \in DOMAIN nodes \cup {node.ID} |->
                 IF k = node.ID THEN node ELSE nodes[k]]

\* ------------------------------------------------------ the node managers
Healthy == "healthy"
Unhealthy == "unhealthy"
Offline == "offline"

\* Config.Server.GRPC.HeartbeatTimeout, in units of the clock.
HeartbeatTimeout == 1

\* The models.Node that Register builds for a node.
Node(nodeID) ==
    [ID |-> nodeID, Status |-> Healthy, LastSeen |-> now, CreatedAt |-> now]

\* The status last persisted for a node, "" for a node never saved.
statusOf(nodeID) == IF nodeID \in DOMAIN nodes THEN nodes[nodeID].Status ELSE ""

\* NodeManager.UpdateNodeStatus on the node manager of the gRPC server.
UpdateNodeStatus(nodeID, status) ==
    IF nodeID \notin DOMAIN nmNodes
    THEN UNCHANGED <<nmNodes, nodes>>
    ELSE LET node == [nmNodes[nodeID].Node EXCEPT !.Status = status,
                                                   !.LastSeen = now]
         IN /\ nmNodes' = [nmNodes EXCEPT ![nodeID].Node = node,
                                          ![nodeID].IsHealthy = (status = Healthy)]
            /\ SaveNode(node)

\* The table of a node manager after NodeManager.RegisterNode(node).
registered(table, node) ==
    [k \in DOMAIN table \cup {node.ID} |->
        IF k = node.ID
        THEN [Node |-> node, LastHeartbeat |-> now, IsHealthy |-> TRUE]
        ELSE table[k]]

\* A registration, heartbeat or frame of the node arrived: its last beat is
\* now, and recovered tells whether it was a heartbeat that found the node
\* UNHEALTHY.
beat(nodeID, recovered) ==
    /\ lastBeat' = [k \in DOMAIN lastBeat \cup {nodeID} |->
                      IF k = nodeID THEN [at |-> now, recovered |-> recovered]
                      ELSE lastBeat[k]]
    /\ marks' = [k \in DOMAIN marks \cup {nodeID} |->
                   IF k = nodeID THEN 0 ELSE marks[k]]

\* The node was set UNHEALTHY and persisted once more.
mark(nodeIDs) ==
    marks' = [k \in DOMAIN marks \cup nodeIDs |->
                (IF k \in DOMAIN marks THEN marks[k] ELSE 0)
                + (IF k \in nodeIDs THEN 1 ELSE 0)]

\* NodeManager.RegisterNode, called on the node manager of the gRPC server or
\* on the one of the Server.
RegisterNode(mgr, nodeID) ==
    /\ nodeID # ""
    /\ IF mgr = "grpc"
       THEN nmNodes' = registered(nmNodes, Node(nodeID)) /\ UNCHANGED srvNodes
       ELSE srvNodes' = registered(srvNodes, Node(nodeID)) /\ UNCHANGED nmNodes
    /\ SaveNode(Node(nodeID))
    /\ beat(nodeID, FALSE)
    /\ lastCall' = {[op |-> "register", node |-> nodeID]}
    /\ lastEval' = NoEval
    /\ lastWrite' = {}
    /\ UNCHANGED <<now, rules, alertVars, procs, sessions, nextSession, streams,
                   storeVars, busVars, agentVars, collectorVars>>

\* CheckHealth, one iteration: the node info after the checks of the loop body.
checked(info, timeout) ==
    LET since == now - info.LastHeartbeat
        first == IF since > timeout /\ info.IsHealthy
                 THEN [info EXCEPT !.IsHealthy = FALSE, !.Node.Status = Unhealthy]
                 ELSE info
    IN IF since > timeout * 3 /\ first.Node.Status # Offline
       THEN [first EXCEPT !.Node.Status = Offline]
       ELSE first

\* NodeManager.CheckHealth(timeout) on the node manager of the Server, as the
\* goroutine of StartHealthCheck calls it; every changed node is saved.
CheckHealth(timeout) ==
    LET after == [k \in DOMAIN srvNodes |-> checked(srvNodes[k], timeout)]
        changed == {k \in DOMAIN srvNodes : after[k] # srvNodes[k]}
    IN /\ srvNodes' = after
       /\ nodes' = [k \in DOMAIN nodes \cup changed |->
                      IF k \in changed THEN after[k].Node ELSE nodes[k]]
       /\ mark({k \in changed : srvNodes[k].IsHealthy /\ ~after[k].IsHealthy})
       /\ lastCall' = {[op |-> "sweep", timeout |-> timeout]}
       /\ lastEval' = NoEval
       /\ lastWrite' = {}
       /\ UNCHANGED <<now, rules, alertVars, procs, sessions, nextSession,
                      streams, nmNodes, storeVars, lastBeat, busVars,
                      agentVars, collectorVars>>

\* -------------------------------------------------------- the live bus
Clients == 1..MaxClients

\* The broadcast worker as a holder of clientsMu; the goroutines of a client
\* are named by the client.
Worker == 0

\* clientsMu: the goroutines holding the read lock and the one holding the
\* write lock. The sections under the write lock do not block and are taken
\* as one step, so no step leaves a writer behind.
FreeMutex == [readers |-> {}, writer |-> ""]

\* WSMessage without its timestamp; Data is the list of the values it carries.
WSMessage(type, data, nodeID) == [Type |-> type, Data |-> data, NodeID |-> nodeID]
NoMessage == WSMessage("", <<>>, "")

\* handleBroadcasts: waiting in the select for the next message.
IdleWorker == [pc |-> "select", message |-> NoMessage, todo |-> {}, client |-> 0]

\* A WebSocketClient: the messages in its send channel, how often the channel
\* was closed, its subscriptions, whether its connection is open, and whether
\* a send on its closed channel has panicked.
NewClient == [send |-> <<>>, closed |-> 0, subscriptions |-> {}, open |-> TRUE,
              panic |-> FALSE]
NoClient == [NewClient EXCEPT !.open = FALSE]

\* The goroutines of a client: "none" before the request, "lock" in ServeHTTP
\* before the client is in the map, "read" in the loop of readPump, "pong" in
\* sendPong, "remove" in the removeClient that readPump defers, "done" after it.
NoProc == [pc |-> "none"]

\* An unrecovered panic ends the server.
Panicked == \E c \in Clients : conns[c].panic

\* The WebSocketServer after NewWebSocketServer: its context is live, and
\* Close has not been called.
NewWebSocketServer == [ctx |-> "live", close |-> "none"]

\* A step of Close or of the worker's return leaves the rest of the server
\* alone.
closeStep ==
    /\ ~Panicked
    /\ lastEval' = NoEval
    /\ lastWrite' = {}
    /\ UNCHANGED <<now, rules, alertVars, procs, ingestVars, nmNodes, storeVars,
                   healthVars, agentVars, collectorVars>>

\* A step of the WebSocket server leaves the rest of the server alone.
busStep ==
    /\ closeStep
    /\ UNCHANGED wsServer

\* json.Marshal(message) fails on a NaN.
marshals(message) == \A i \in 1..Len(message.Data) : ~IsNaN(message.Data[i])

\* A publisher that waits for room in the channel instead.
publishWaiting(message) ==
    /\ Len(broadcast) < BroadcastCap
    /\ broadcast' = Append(broadcast, message)
    /\ lastCall' = {[op |-> "publish", full |-> FALSE]}
    /\ busStep
    /\ UNCHANGED <<clients, conns, clientsMu, worker, wsProcs>>

\* select { case ws.broadcast <- message: default: } of the Broadcast methods.
publish(message) ==
    /\ IF Len(broadcast) < BroadcastCap
       THEN broadcast' = Append(broadcast, message)
       ELSE UNCHANGED broadcast
    /\ lastCall' = {[op |-> "publish", full |-> Len(broadcast) >= BroadcastCap]}
    /\ busStep
    /\ UNCHANGED <<clients, conns, clientsMu, worker, wsProcs>>

\* WebSocketServer.BroadcastMetrics; metrics is the list of the values.
BroadcastMetrics(metrics) ==
    IF Len(metrics) = 0
    THEN /\ lastCall' = {}
         /\ busStep
         /\ UNCHANGED busVars
    ELSE publish(WSMessage("metrics", metrics, ""))

\* WebSocketServer.BroadcastAlert
BroadcastAlert(alert) ==
    publish(WSMessage("alert", <<alert.Value>>, alert.Labels.node))

\* WebSocketServer.BroadcastNodeStatus
BroadcastNodeStatus(node) ==
    publish(WSMessage("node_status", <<>>, node.ID))

\* WebSocketServer.ServeHTTP up to its Lock(): the client object exists.
ServeHTTP(c) ==
    /\ wsProcs[c].pc = "none"
    /\ conns' = [conns EXCEPT ![c] = NewClient]
    /\ wsProcs' = [wsProcs EXCEPT ![c].pc = "lock"]
    /\ lastCall' = {}
    /\ busStep
    /\ UNCHANGED <<broadcast, clients, clientsMu, worker>>

\* Lock() returns when nobody holds the mutex.
canLock == clientsMu.readers = {} /\ clientsMu.writer = ""

\* ServeHTTP under the lock: the client enters the map, and its pumps start.
addClient(c) ==
    /\ wsProcs[c].pc = "lock"
    /\ canLock
    /\ clients' = clients \cup {c}
    /\ wsProcs' = [wsProcs EXCEPT ![c].pc = "read"]
    /\ lastCall' = {}
    /\ busStep
    /\ UNCHANGED <<broadcast, conns, clientsMu, worker>>

\* A subscription test that takes every client as subscribed to everything.
isSubscribedToAny(client, topic) == TRUE

\* WebSocketClient.isSubscribed
isSubscribed(client, topic) == topic \in client.subscriptions

\* WebSocketClient.subscribe and unsubscribe: the client after the message.
subscribed(client, msg) ==
    CASE msg.Type = "subscribe" ->
             [client EXCEPT !.subscriptions = @ \cup msg.Topics]
      [] msg.Type = "unsubscribe" ->
             [client EXCEPT !.subscriptions = @ \ msg.Topics]
      [] OTHER -> client

\* readPump: ReadMessage returns a message of the client, and handleMessage
\* subscribes, unsubscribes, or calls sendPong.
handleMessage(c, msg) ==
    /\ wsProcs[c].pc = "read"
    /\ conns[c].open
    /\ conns' = [conns EXCEPT ![c] = subscribed(@, msg)]
    /\ wsProcs' = [wsProcs EXCEPT ![c].pc =
                      IF msg.Type = "ping" THEN "pong" ELSE "read"]
    /\ lastCall' = {}
    /\ busStep
    /\ UNCHANGED <<broadcast, clients, clientsMu, worker>>

\* WebSocketClient.sendPong: the select on the send channel of the client.
sendPong(c) ==
    LET client == conns[c]
    IN /\ wsProcs[c].pc = "pong"
       /\ conns' = [conns EXCEPT ![c] =
              IF client.closed > 0
              THEN [client EXCEPT !.panic = TRUE]
              ELSE IF Len(client.send) < SendCap
              THEN [client EXCEPT !.send = Append(@, WSMessage("pong", <<>>, ""))]
              ELSE client]
       /\ wsProcs' = [wsProcs EXCEPT ![c].pc = "read"]
       /\ lastCall' = {}
       /\ busStep
       /\ UNCHANGED <<broadcast, clients, clientsMu, worker>>

\* readPump: ReadMessage fails (the client left, or the connection was
\* closed), and the deferred removeClient is called.
ReadError(c) ==
    /\ wsProcs[c].pc = "read"
    /\ wsProcs' = [wsProcs EXCEPT ![c].pc = "remove"]
    /\ lastCall' = {}
    /\ busStep
    /\ UNCHANGED <<broadcast, clients, conns, clientsMu, worker>>

\* writePump: takes the messages of the send channel and writes them.
writePump(c) ==
    /\ conns[c].open
    /\ conns[c].send # <<>>
    /\ conns' = [conns EXCEPT ![c].send = <<>>]
    /\ lastCall' = {}
    /\ busStep
    /\ UNCHANGED <<broadcast, clients, clientsMu, worker, wsProcs>>

\* WebSocketServer.removeClient(client), called by goroutine p: by the
\* readPump of the client on its way out, or by the broadcast worker for the
\* client whose send channel is full.
removeClient(p) ==
    LET client == IF p = Worker THEN worker.client ELSE p
    IN /\ IF p = Worker THEN worker.pc = "lock" ELSE wsProcs[p].pc = "remove"
       /\ canLock
       /\ IF client \in clients
          THEN /\ clients' = clients \ {client}
               /\ conns' = [conns EXCEPT ![client].closed = @ + 1,
                                         ![client].open = FALSE]
          ELSE UNCHANGED <<clients, conns>>
       /\ IF p = Worker
          THEN /\ worker' = [worker EXCEPT !.pc = "range", !.client = 0]
               /\ UNCHANGED wsProcs
          ELSE /\ wsProcs' = [wsProcs EXCEPT ![p].pc = "done"]
               /\ UNCHANGED worker
       /\ lastCall' = {}
       /\ busStep
       /\ UNCHANGED <<broadcast, clientsMu>>

\* handleBroadcasts: the select takes the next message of the channel.
WorkerTake ==
    /\ worker.pc = "select"
    /\ broadcast # <<>>
    /\ worker' = [worker EXCEPT !.pc = "rlock", !.message = Head(broadcast)]
    /\ broadcast' = Tail(broadcast)
    /\ lastCall' = {}
    /\ busStep
    /\ UNCHANGED <<clients, conns, clientsMu, wsProcs>>

\* handleBroadcasts: clientsMu.RLock(), and the range over the clients starts.
WorkerRLock ==
    /\ worker.pc = "rlock"
    /\ clientsMu.writer = ""
    /\ clientsMu' = [clientsMu EXCEPT !.readers = @ \cup {Worker}]
    /\ worker' = [worker EXCEPT !.pc = "range", !.todo = clients]
    /\ lastCall' = {}
    /\ busStep
    /\ UNCHANGED <<broadcast, clients, conns, wsProcs>>

\* handleBroadcasts: the loop body for one client of the map, in any order.
WorkerDeliver(c) ==
    LET client == conns[c]
        message == worker.message
        wanted == isSubscribed(client, message.Type) \/ isSubscribed(client, "all")
    IN /\ worker.pc = "range"
       /\ c \in worker.todo
       /\ IF ~wanted \/ ~marshals(message)
          THEN /\ worker' = [worker EXCEPT !.todo = @ \ {c}]
               /\ UNCHANGED conns
          ELSE IF client.closed > 0
          THEN /\ conns' = [conns EXCEPT ![c].panic = TRUE]
               /\ UNCHANGED worker
          ELSE IF Len(client.send) < SendCap
          THEN /\ conns' = [conns EXCEPT ![c].send = Append(@, message)]
               /\ worker' = [worker EXCEPT !.todo = @ \ {c}]
          ELSE /\ worker' = [worker EXCEPT !.pc = "lock", !.client = c,
                                           !.todo = @ \ {c}]
               /\ UNCHANGED conns
       /\ lastCall' = {[op |-> "deliver", client |-> c,
                        sent |-> conns'[c].send # client.send]}
       /\ busStep
       /\ UNCHANGED <<broadcast, clients, clientsMu, wsProcs>>

\* handleBroadcasts: the range is over, clientsMu.RUnlock().
WorkerRUnlock ==
    /\ worker.pc = "range"
    /\ worker.todo = {}
    /\ clientsMu' = [clientsMu EXCEPT !.readers = @ \ {Worker}]
    /\ worker' = IdleWorker
    /\ lastCall' = {}
    /\ busStep
    /\ UNCHANGED <<broadcast, clients, conns, wsProcs>>

\* WebSocketServer.Close: ws.cancel(), then ws.wg.Wait().
CloseCancel ==
    /\ wsServer.close = "none"
    /\ wsServer' = [ctx |-> "cancelled", close |-> "wait"]
    /\ lastCall' = {}
    /\ closeStep
    /\ UNCHANGED <<broadcast, clients, conns, clientsMu, worker, wsProcs>>

\* handleBroadcasts: the select takes <-ws.ctx.Done(), and the worker returns.
WorkerReturn ==
    /\ worker.pc = "select"
    /\ wsServer.ctx = "cancelled"
    /\ worker' = [worker EXCEPT !.pc = "done"]
    /\ lastCall' = {}
    /\ busStep
    /\ UNCHANGED <<broadcast, clients, conns, clientsMu, wsProcs>>

\* WebSocketServer.Close after the worker has returned: under the lock, the
\* connection and the send channel of every client in the map are closed;
\* the clients stay in the map.
CloseClients ==
    /\ wsServer.close = "wait"
    /\ worker.pc = "done"
    /\ canLock
    /\ conns' = [c \in Clients |->
                    IF c \in clients
                    THEN [conns[c] EXCEPT !.closed = @ + 1, !.open = FALSE]
                    ELSE conns[c]]
    /\ wsServer' = [wsServer EXCEPT !.close = "done"]
    /\ lastCall' = {[op |-> "close", clients |-> clients]}
    /\ closeStep
    /\ UNCHANGED <<broadcast, clients, clientsMu, worker, wsProcs>>

\* ------------------------------------------------------- the ingest server
Streams == 1..MaxStreams

\* pc: "none" (not opened), "first" (waiting for the first message), "loop",
\* "done". sid, node: the session named by the first message and its NodeID.
\* recv: the number of batches received in the loop. hb: the handleHeartbeat
\* goroutine of the stream, "" (not started), "run" or "done".
NoStream == [pc |-> "none", sid |-> "", node |-> "", recv |-> 0, status |-> "",
             hb |-> ""]

GenerateSessionID(n) == "session-" \o ToString(n)

\* The registry lookup s.sessions[sessionID].
exists(sessionID) ==
    sessionID \in DOMAIN sessions /\ sessions[sessionID].Registered

Register(nodeID) ==
    /\ lastEval' = NoEval
    /\ lastWrite' = {}
    /\ lastCall' = {}
    /\ UNCHANGED <<srvNodes, busVars, agentVars, collectorVars>>
    /\ UNCHANGED <<now, rules, alertVars, procs, streams, nmNodes, storeVars>>
    /\ IF nodeID = ""
       THEN UNCHANGED <<sessions, nextSession, nodes, lastBeat, marks>>
       ELSE LET sessionID == GenerateSessionID(nextSession + 1) IN
            /\ nextSession < MaxSessions
            /\ nextSession' = nextSession + 1
            /\ sessions' = [k \in DOMAIN sessions \cup {sessionID} |->
                  IF k = sessionID
                  THEN [NodeID |-> nodeID, SessionID |-> sessionID,
                        LastSeen |-> now, Stream |-> 0, ConnectedAt |-> now,
                        Registered |-> TRUE]
                  ELSE sessions[k]]
            /\ SaveNode(Node(nodeID))
            /\ beat(nodeID, FALSE)

\* A client opens the StreamMetrics RPC.
OpenStream(st) ==
    /\ streams[st].pc = "none"
    /\ streams' = [streams EXCEPT ![st].pc = "first"]
    /\ lastEval' = NoEval
    /\ lastWrite' = {}
    /\ lastCall' = {}
    /\ UNCHANGED <<healthVars, busVars, agentVars, collectorVars>>
    /\ UNCHANGED <<now, rules, alertVars, procs, sessions, nextSession, nodes,
                   nmNodes, storeVars>>

\* session.Stream = stream; session.LastSeen = time.Now(), written through
\* the session pointer the handler holds.
touch(sessionID, st) ==
    sessions' = [sessions EXCEPT ![sessionID].LastSeen = now,
                                 ![sessionID].Stream = st]

\* StreamMetrics up to its loop: the first message names the session.
RecvFirst(st, frame) ==
    /\ streams[st].pc = "first"
    /\ IF frame.SessionId = ""
       THEN /\ streams' = [streams EXCEPT ![st].pc = "done",
                                          ![st].status = "InvalidArgument"]
            /\ UNCHANGED <<sessions, lastBeat, marks>>
       ELSE IF ~exists(frame.SessionId)
       THEN /\ streams' = [streams EXCEPT ![st].pc = "done",
                                          ![st].status = "Unauthenticated"]
            /\ UNCHANGED <<sessions, lastBeat, marks>>
       ELSE /\ streams' = [streams EXCEPT ![st].pc = "loop",
                                          ![st].sid = frame.SessionId,
                                          ![st].node = sessions[frame.SessionId].NodeID,
                                          ![st].hb = "run"]
            /\ touch(frame.SessionId, st)
            /\ beat(sessions[frame.SessionId].NodeID, FALSE)
    /\ lastEval' = NoEval
    /\ lastWrite' = {}
    /\ lastCall' = {}
    /\ UNCHANGED <<srvNodes, busVars, agentVars, collectorVars>>
    /\ UNCHANGED <<now, rules, alertVars, procs, nextSession, nodes, nmNodes,
                   storeVars>>

\* StreamMetrics: stream.Recv() fails before the first message.
RecvFirstError(st) ==
    /\ streams[st].pc = "first"
    /\ streams' = [streams EXCEPT ![st].pc = "done",
                                  ![st].status = "InvalidArgument"]
    /\ lastEval' = NoEval
    /\ lastWrite' = {}
    /\ lastCall' = {}
    /\ UNCHANGED <<healthVars, busVars, agentVars, collectorVars>>
    /\ UNCHANGED <<now, rules, alertVars, procs, sessions, nextSession, nodes,
                   nmNodes, storeVars>>

\* The goroutine slot `go s.processMetrics(session, batch)` starts in.
freeProc == CHOOSE p \in Procs :
                procs[p].pc = "idle" /\ \A q \in Procs : procs[q].pc = "idle" => p <= q

\* One iteration of the loop of StreamMetrics that receives a batch.
RecvBatch(st, frame) ==
    LET str == streams[st] IN
    /\ str.pc = "loop"
    /\ str.recv < MaxFrames
    /\ \E p \in Procs : procs[p].pc = "idle"
    /\ touch(str.sid, sessions[str.sid].Stream)
    /\ streams' = [streams EXCEPT ![st].recv = @ + 1]
    /\ procs' = [procs EXCEPT ![freeProc] =
                    [IdleProc EXCEPT !.pc = "write", !.caller = "ingest",
                                     !.node = str.node,
                                     !.metrics = frame.Metrics,
                                     !.stream = st, !.seq = str.recv + 1,
                                     !.auth = exists(frame.SessionId)]]
    /\ beat(str.node, FALSE)
    /\ lastEval' = NoEval
    /\ lastWrite' = {}
    /\ lastCall' = {}
    /\ UNCHANGED <<srvNodes, busVars, agentVars, collectorVars>>
    /\ UNCHANGED <<now, rules, alertVars, nextSession, nodes, nmNodes, storeVars>>

\* stream.Recv() fails in the loop: the stream is closed and the session is
\* removed from the registry.
RecvClosed(st) ==
    /\ streams[st].pc = "loop"
    /\ streams' = [streams EXCEPT ![st].pc = "done", ![st].status = "OK",
                                  ![st].hb = "done"]
    /\ sessions' = [sessions EXCEPT ![streams[st].sid].Registered = FALSE]
    /\ lastEval' = NoEval
    /\ lastWrite' = {}
    /\ lastCall' = {}
    /\ UNCHANGED <<healthVars, busVars, agentVars, collectorVars>>
    /\ UNCHANGED <<now, rules, alertVars, procs, nextSession, nodes, nmNodes,
                   storeVars>>

\* processMetrics: the conversion of the protobuf metrics.
convert(pbMetric, nodeID) == [pbMetric EXCEPT !.NodeID = nodeID]

\* processMetrics returns when WriteMetrics fails.
afterWriteReturn(pr, rest, err) ==
    IF err THEN IdleProc
    ELSE IF rest = <<>> THEN returned(pr)
    ELSE [IdleProc EXCEPT !.pc = "check", !.caller = "ingest",
                          !.node = pr.node, !.metrics = rest]

\* processMetrics after WriteMetrics: an error is logged, and CheckMetrics is
\* called whether or not there was one; rest are the samples some rule names.
afterWrite(pr, rest, err) ==
    IF rest = <<>> THEN returned(pr)
    ELSE [IdleProc EXCEPT !.pc = "check", !.caller = "ingest",
                          !.node = pr.node, !.metrics = rest]

\* processMetrics up to the call of CheckMetrics, which takes rulesMu.RLock.
ProcessWrite(p, fail) ==
    LET pr == procs[p]
        metrics == [i \in 1..Len(pr.metrics) |-> convert(pr.metrics[i], pr.node)]
        rest == SelectSeq(metrics, IsRelevant)
    IN /\ pr.pc = "write"
       /\ WriteMetrics(metrics, fail, WriteCall(metrics, pr.stream, pr.seq, pr.auth))
       /\ committed' = IF \E w \in lastWrite' : w.stored # {}
                       THEN [committed EXCEPT ![pr.stream] = @ \cup {pr.seq}]
                       ELSE committed
       /\ procs' = [procs EXCEPT ![p] =
                      afterWrite(pr, rest, \E w \in lastWrite' : w.err)]
       /\ lastEval' = NoEval
       /\ lastCall' = {}
       /\ UNCHANGED <<healthVars, busVars, agentVars, collectorVars>>
       /\ UNCHANGED <<now, rules, alertVars, ingestVars, nmNodes, compression>>

\* processMetrics after CheckMetrics: the node is reported healthy.
ProcessStatus(p) ==
    /\ procs[p].pc = "status"
    /\ UpdateNodeStatus(procs[p].node, Healthy)
    /\ procs' = [procs EXCEPT ![p] = IdleProc]
    /\ lastEval' = NoEval
    /\ lastWrite' = {}
    /\ lastCall' = {}
    /\ UNCHANGED <<healthVars, busVars, agentVars, collectorVars>>
    /\ UNCHANGED <<now, rules, alertVars, sessions, nextSession, streams, storeVars>>

\* GRPCServer.Heartbeat
Heartbeat(sessionID) ==
    /\ IF ~exists(sessionID)
       THEN /\ lastCall' = {[op |-> "heartbeat", ok |-> FALSE]}
            /\ UNCHANGED <<sessions, nmNodes, nodes, lastBeat, marks>>
       ELSE LET nodeID == sessions[sessionID].NodeID IN
            /\ sessions' = [sessions EXCEPT ![sessionID].LastSeen = now]
            /\ UpdateNodeStatus(nodeID, Healthy)
            /\ beat(nodeID, statusOf(nodeID) = Unhealthy)
            /\ lastCall' = {[op |-> "heartbeat", ok |-> TRUE, node |-> nodeID,
                             was |-> statusOf(nodeID)]}
    /\ lastEval' = NoEval
    /\ lastWrite' = {}
    /\ UNCHANGED <<now, rules, alertVars, procs, nextSession, streams, storeVars,
                   srvNodes, busVars, agentVars, collectorVars>>

\* handleHeartbeat: the ticker of a stream fires. A session not seen for
\* longer than the heartbeat timeout has its node set UNHEALTHY, and the
\* goroutine returns.
HeartbeatCheck(st) ==
    LET str == streams[st]
        late == now - sessions[str.sid].LastSeen > HeartbeatTimeout
    IN /\ str.hb = "run"
       /\ IF late
          THEN /\ UpdateNodeStatus(str.node, Unhealthy)
               /\ mark(IF str.node \in DOMAIN nmNodes THEN {str.node} ELSE {})
               /\ streams' = [streams EXCEPT ![st].hb = "done"]
          ELSE UNCHANGED <<nmNodes, nodes, marks, streams>>
       /\ lastCall' = {[op |-> "timeout", stream |-> st, late |-> late]}
       /\ lastEval' = NoEval
       /\ lastWrite' = {}
       /\ UNCHANGED <<now, rules, alertVars, procs, sessions, nextSession,
                      storeVars, srvNodes, lastBeat, busVars, agentVars, collectorVars>>

\* The clock of the health specifications.
HealthTick ==
    /\ Advance(MaxHealthTime)
    /\ lastEval' = NoEval
    /\ lastWrite' = {}
    /\ lastCall' = {}
    /\ UNCHANGED <<rules, alertVars, procs, ingestVars, nmNodes, storeVars,
                   healthVars, busVars, agentVars, collectorVars>>

\* --------------------------------------------------------------- the agent
Collectors == 1..MaxCollectors

\* Config.Agent.BatchSize and Config.Agent.MaxBatchWait, in units of the clock.
BatchSize == 2
MaxBatchWait == 2

\* The Agent after NewAgent: not connected, no session, its context not yet
\* made; closed and panic tell whether metricsCh is closed and whether a send
\* on the closed channel has panicked; uuids counts the session IDs generated.
NewAgent == [ctx |-> "none", connected |-> FALSE, sessionID |-> "", uuids |-> 0,
             closed |-> FALSE, panic |-> FALSE]

\* The goroutines of the agent: Start and Stop by their position, the others
\* "none", "run" or "done"; reconnects holds, for each running reconnect loop,
\* the session ID the agent held when its heartbeat failed.
NoAgentProcs == [start |-> "none", stop |-> "none", pm |-> "none", hb |-> "none",
                 collector |-> [c \in Collectors |-> "none"],
                 reconnects |-> <<>>]

\* time.NewTimer(d) and Timer.Reset(d): Reset leaves a value that an expired
\* timer has already put into its channel where it is.
NoTimer == [at |-> 0, armed |-> FALSE, tick |-> FALSE]
NewTimer(d) == [at |-> now + d, armed |-> TRUE, tick |-> FALSE]
Reset(timer, d) == [timer EXCEPT !.at = now + d, !.armed = TRUE]

InitAgent ==
    /\ agent = NewAgent
    /\ metricsCh = <<>>
    /\ batch = <<>>
    /\ batchTimer = NoTimer
    /\ agentProcs = NoAgentProcs

\* A step of the agent leaves the server alone.
agentStep ==
    /\ ~agent.panic
    /\ lastEval' = NoEval
    /\ lastWrite' = {}
    /\ UNCHANGED <<rules, alertVars, procs, ingestVars, nmNodes, storeVars,
                   healthVars, busVars, collectorVars>>

\* Agent.Start: Connect, Register, and the goroutines start. connects tells
\* whether the dial of the connection manager succeeds.
Start(connects) ==
    /\ agentProcs.start = "none"
    /\ IF connects
       THEN /\ agent' = [agent EXCEPT !.ctx = "live", !.connected = TRUE,
                                      !.sessionID = GenerateSessionID(agent.uuids + 1),
                                      !.uuids = @ + 1]
            /\ agentProcs' = [agentProcs EXCEPT
                                  !.start = "done", !.pm = "run", !.hb = "run",
                                  !.collector = [c \in Collectors |-> "run"]]
            /\ batchTimer' = NewTimer(MaxBatchWait)
       ELSE /\ agent' = [agent EXCEPT !.ctx = "live"]
            /\ agentProcs' = [agentProcs EXCEPT !.start = "failed"]
            /\ UNCHANGED batchTimer
    /\ lastCall' = {}
    /\ agentStep
    /\ UNCHANGED <<now, metricsCh, batch>>

\* runCollector, the ticker case: Collect, then the select that offers the
\* metrics to metricsCh. size is the number of metrics collected, failed tells
\* whether Collect returned an error.
runCollector(c, size, failed) ==
    /\ agentProcs.collector[c] = "run"
    /\ IF failed
       THEN /\ UNCHANGED <<agent, metricsCh>>
            /\ lastCall' = {}
       ELSE IF agent.closed
       THEN /\ agent' = [agent EXCEPT !.panic = TRUE]
            /\ UNCHANGED metricsCh
            /\ lastCall' = {}
       ELSE /\ metricsCh' = IF Len(metricsCh) < MetricsChCap
                            THEN Append(metricsCh, size) ELSE metricsCh
            /\ lastCall' = {[op |-> "offer",
                             dropped |-> Len(metricsCh) >= MetricsChCap]}
            /\ UNCHANGED agent
    /\ agentStep
    /\ UNCHANGED <<now, batch, batchTimer, agentProcs>>

\* runCollector, the case of a cancelled context.
collectorStopped(c) ==
    /\ agentProcs.collector[c] = "run"
    /\ agent.ctx = "done"
    /\ agentProcs' = [agentProcs EXCEPT !.collector[c] = "done"]
    /\ lastCall' = {}
    /\ agentStep
    /\ UNCHANGED <<now, agent, metricsCh, batch, batchTimer>>

\* Agent.sendMetrics(batch): what the client is handed.
sendMetrics(buffer) ==
    [op |-> "send", size |-> Len(buffer), session |-> agent.sessionID,
     oldest |-> buffer[1]]

\* processMetrics, the timer case before the Reset: whether the buffer is
\* sent, and the buffer afterwards.
onTimerIdle(buffer) == [send |-> FALSE, batch |-> buffer]

onTimer(buffer) == [send |-> Len(buffer) > 0, batch |-> <<>>]

\* processMetrics, case metrics := <-a.metricsCh (a closed channel delivers
\* nil): append, and send if the buffer has reached the batch size.
processReceive ==
    LET metrics == IF metricsCh = <<>> THEN 0 ELSE Head(metricsCh)
        buffer == batch \o [i \in 1..metrics |-> now]
    IN /\ agentProcs.pm = "run"
       /\ metricsCh # <<>> \/ agent.closed
       /\ metricsCh' = IF metricsCh = <<>> THEN <<>> ELSE Tail(metricsCh)
       /\ IF Len(buffer) >= BatchSize
          THEN /\ lastCall' = {sendMetrics(buffer)}
               /\ batch' = <<>>
               /\ batchTimer' = Reset(batchTimer, MaxBatchWait)
          ELSE /\ lastCall' = {}
               /\ batch' = buffer
               /\ UNCHANGED batchTimer
       /\ agentStep
       /\ UNCHANGED <<now, agent, agentProcs>>

\* processMetrics, case <-batchTimer.C
processTimer ==
    LET after == onTimer(batch)
    IN /\ agentProcs.pm = "run"
       /\ batchTimer.tick
       /\ lastCall' = IF after.send THEN {sendMetrics(batch)} ELSE {}
       /\ batch' = after.batch
       /\ batchTimer' = Reset([batchTimer EXCEPT !.tick = FALSE], MaxBatchWait)
       /\ agentStep
       /\ UNCHANGED <<now, agent, metricsCh, agentProcs>>

\* processMetrics, case <-a.ctx.Done(): the rest of the buffer is sent.
processStopped ==
    /\ agentProcs.pm = "run"
    /\ agent.ctx = "done"
    /\ lastCall' = IF Len(batch) > 0 THEN {sendMetrics(batch)} ELSE {}
    /\ batch' = <<>>
    /\ agentProcs' = [agentProcs EXCEPT !.pm = "done"]
    /\ agentStep
    /\ UNCHANGED <<now, agent, metricsCh, batchTimer>>

\* The runtime fires batchTimer: a value enters its channel.
timerFires ==
    /\ batchTimer.armed
    /\ now >= batchTimer.at
    /\ batchTimer' = [batchTimer EXCEPT !.armed = FALSE, !.tick = TRUE]
    /\ lastCall' = {}
    /\ agentStep
    /\ UNCHANGED <<now, agent, metricsCh, batch, agentProcs>>

\* GRPCClient.Heartbeat: fails exactly when the client is not connected.
clientHeartbeat == agent.connected

\* Agent.heartbeat, the ticker case: a failed heartbeat starts a reconnect loop.
heartbeat ==
    /\ agentProcs.hb = "run"
    /\ IF clientHeartbeat
       THEN UNCHANGED agentProcs
       ELSE /\ Len(agentProcs.reconnects) < MaxReconnects
            /\ agentProcs' = [agentProcs EXCEPT
                                  !.reconnects = Append(@, agent.sessionID)]
    /\ lastCall' = {[op |-> "beat", ok |-> clientHeartbeat,
                     session |-> agent.sessionID]}
    /\ agentStep
    /\ UNCHANGED <<now, agent, metricsCh, batch, batchTimer>>

\* Agent.heartbeat, the case of a cancelled context.
heartbeatStopped ==
    /\ agentProcs.hb = "run"
    /\ agent.ctx = "done"
    /\ agentProcs' = [agentProcs EXCEPT !.hb = "done"]
    /\ lastCall' = {}
    /\ agentStep
    /\ UNCHANGED <<now, agent, metricsCh, batch, batchTimer>>

\* A sequence without its i-th element.
without(seq, i) == [k \in 1..(Len(seq) - 1) |-> IF k < i THEN seq[k] ELSE seq[k + 1]]

\* Agent.reconnect, one round of its loop for the i-th running loop: it returns
\* when the context is cancelled; otherwise GRPCClient.Reconnect, and after a
\* successful one Register and the new session ID.
reconnect(i, connects) ==
    /\ i \in 1..Len(agentProcs.reconnects)
    /\ IF agent.ctx = "done"
       THEN /\ agentProcs' = [agentProcs EXCEPT !.reconnects = without(@, i)]
            /\ UNCHANGED agent
       ELSE IF ~connects
       THEN /\ agent' = [agent EXCEPT !.connected = FALSE]
            /\ UNCHANGED agentProcs
       ELSE /\ agent' = [agent EXCEPT !.connected = TRUE,
                                      !.sessionID = GenerateSessionID(agent.uuids + 1),
                                      !.uuids = @ + 1]
            /\ agentProcs' = [agentProcs EXCEPT !.reconnects = without(@, i)]
    /\ lastCall' = {[op |-> "reconnect", old |-> agentProcs.reconnects[i]]}
    /\ agentStep
    /\ UNCHANGED <<now, metricsCh, batch, batchTimer>>

\* Agent.Stop: the context is cancelled, and Stop waits for the goroutines.
stopCancel ==
    /\ agentProcs.start = "done"
    /\ agentProcs.stop = "none"
    /\ agent' = [agent EXCEPT !.ctx = "done"]
    /\ agentProcs' = [agentProcs EXCEPT !.stop = "wait"]
    /\ lastCall' = {}
    /\ agentStep
    /\ UNCHANGED <<now, metricsCh, batch, batchTimer>>

\* wg.Wait() returns: the collectors, processMetrics and heartbeat are done.
allStopped ==
    /\ agentProcs.pm = "done"
    /\ agentProcs.hb = "done"
    /\ \A c \in Collectors : agentProcs.collector[c] = "done"

\* Agent.Stop after its select: the goroutines are done, or the deadline of
\* Stop has passed; the client is closed and metricsCh is closed.
stopClose(expired) ==
    /\ agentProcs.stop = "wait"
    /\ allStopped \/ expired
    /\ agent' = [agent EXCEPT !.connected = FALSE, !.closed = TRUE]
    /\ agentProcs' = [agentProcs EXCEPT !.stop = "done"]
    /\ lastCall' = {[op |-> "stop", stopped |-> allStopped]}
    /\ agentStep
    /\ UNCHANGED <<now, metricsCh, batch, batchTimer>>

\* The clock of the agent; processMetrics is scheduled in time: the clock does
\* not pass an expired batchTimer that it has not yet handled.
agentTick ==
    /\ agentProcs.pm = "run" =>
           /\ ~batchTimer.tick
           /\ ~(batchTimer.armed /\ now >= batchTimer.at)
    /\ Advance(MaxAgentTime)
    /\ lastCall' = {}
    /\ agentStep
    /\ UNCHANGED agentVars

\* ---------------------------------------------------- the system collector
\* Time is counted in seconds here. The network interfaces that pass the
\* filters of collectNetworkMetrics, and the disks disk.IOCounters reports.
Interfaces == {"eth0"}
Devices == {"sda"}

\* The counters of gopsutil are uint64; the width is scaled down.
CounterBits == 3
Counters == 0..(2^CounterBits - 1)

\* x - y on unsigned integers of the counters' width.
Uint64Sub(x, y) == (x - y) % (2^CounterBits)

\* time.Second, a Duration: a number of nanoseconds.
Second == 1000000000

RECURSIVE gcd(_, _)
gcd(a, b) == IF b = 0 THEN a ELSE gcd(b, a % b)

\* The float64 n / d, kept exact as a fraction in lowest terms.
Quotient(n, d) == LET g == gcd(n, d) IN [num |-> n \div g, den |-> d \div g]

\* One reading of the counters of an interface or a disk. Only one counter
\* is kept (BytesRecv, ReadBytes), the code treats the others the same way.
\* at is the time of the reading, which the code does not keep.
IOCountersStat(c) == [Bytes |-> c, at |-> now]

InitCollector ==
    /\ lastNet = <<>>
    /\ lastDisk = <<>>

\* The rate samples of collectNetworkMetrics for one interface.
netRates(name, io, last) ==
    <<[Name |-> "system_network_receive_bytes_per_second", Label |-> name,
       Value |-> Quotient(Uint64Sub(io.Bytes, last.Bytes), Second)]>>

\* The absolute counters of collectNetworkMetrics for one interface.
netTotals(name, io) ==
    <<[Name |-> "system_network_receive_bytes_total", Label |-> name,
       Value |-> Quotient(io.Bytes, 1)]>>

\* The rate samples of collectDiskMetrics for one device.
diskRates(device, io, last) ==
    <<[Name |-> "system_disk_read_bytes_per_second", Label |-> device,
       Value |-> Quotient(Uint64Sub(io.Bytes, last.Bytes), Second)]>>

\* A step of the collector leaves the server and the agent alone.
collectorStep ==
    /\ lastEval' = NoEval
    /\ lastWrite' = {}
    /\ UNCHANGED <<rules, alertVars, procs, ingestVars, nmNodes, storeVars,
                   healthVars, busVars, agentVars>>

\* SystemCollector.collectNetworkMetrics: counters are the values
\* net.IOCounters reads, failed tells whether it returns an error.
collectNetworkMetrics(counters, failed) ==
    LET ioCounters == [n \in Interfaces |-> IOCountersStat(counters[n])]
        metrics ==
            [n \in Interfaces |->
                (IF n \in DOMAIN lastNet
                 THEN netRates(n, ioCounters[n], lastNet[n]) ELSE <<>>)
                \o netTotals(n, ioCounters[n])]
    IN /\ lastCall' = {[op |-> "network", failed |-> failed, last |-> lastNet,
                        io |-> ioCounters,
                        metrics |-> IF failed THEN [n \in Interfaces |-> <<>>]
                                    ELSE metrics]}
       /\ lastNet' = IF failed THEN lastNet ELSE ioCounters
       /\ UNCHANGED <<now, lastDisk>>
       /\ collectorStep

\* The disk I/O part of SystemCollector.collectDiskMetrics: counters are the
\* values disk.IOCounters reads, failed tells whether it returns an error.
collectDiskMetrics(counters, failed) ==
    LET ioCounters == [d \in Devices |-> IOCountersStat(counters[d])]
        metrics ==
            [d \in Devices |->
                IF d \in DOMAIN lastDisk
                THEN diskRates(d, ioCounters[d], lastDisk[d]) ELSE <<>>]
    IN /\ lastCall' = {[op |-> "disk", failed |-> failed, last |-> lastDisk,
                        io |-> ioCounters,
                        metrics |-> IF failed THEN [d \in Devices |-> <<>>]
                                    ELSE metrics]}
       /\ lastDisk' = IF failed THEN lastDisk ELSE ioCounters
       /\ UNCHANGED <<now, lastNet>>
       /\ collectorStep

\* Time passes between two ticks of the collector.
collectorTick ==
    /\ Advance(MaxCollectTime)
    /\ lastCall' = {}
    /\ collectorStep
    /\ UNCHANGED collectorVars

\* ------------------------------------------------ the encoding of a sample
\* MetricType and its String and MetricTypeFromString.
MetricTypeGauge == 0
MetricTypeCounter == 1
MetricTypeHistogram == 2
MetricTypeSummary == 3

String(t) ==
    CASE t = MetricTypeGauge -> "gauge"
      [] t = MetricTypeCounter -> "counter"
      [] t = MetricTypeHistogram -> "histogram"
      [] t = MetricTypeSummary -> "summary"
      [] OTHER -> "unknown"

MetricTypeFromString(str) ==
    CASE str = "gauge" -> MetricTypeGauge
      [] str = "counter" -> MetricTypeCounter
      [] str = "histogram" -> MetricTypeHistogram
      [] str = "summary" -> MetricTypeSummary
      [] OTHER -> MetricTypeGauge

\* strings.Split(name, ":") for the metric names in use.
splitName(name) ==
    CASE name = "node:cpu" -> <<"node", "cpu">>
      [] name = "job:7" -> <<"job", "7">>
      [] OTHER -> <<name>>

\* The timestamps in use, and the text %d writes for them.
Timestamps == {7, 8}

\* bytes.Split(key, ":") of the key encodeMetricKey builds: the name
\* contributes one part for every piece between its colons.
splitKey(metric) ==
    <<"metric">> \o splitName(metric.Name)
        \o <<ToString(metric.Timestamp), HashLabels(metric.Labels)>>

\* strconv.ParseInt(text, 10, 64): the number, or an error.
parses(text) == \E t \in Timestamps : ToString(t) = text
ParseInt(text) == CHOOSE t \in Timestamps : ToString(t) = text

\* json.Marshal of the value struct of encodeMetricValue.
marshalValue(metric) ==
    [v |-> metric.Value, l |-> metric.Labels, n |-> metric.NodeID,
     t |-> String(metric.Type), h |-> metric.Help, u |-> metric.Unit]

\* BadgerStore.decodeMetric of an item with the key parts and the value data:
\* the metric, or an error.
decodeItem(parts, data) ==
    IF Len(parts) < 3 \/ ~parses(parts[3])
    THEN [err |-> TRUE]
    ELSE [err |-> FALSE,
          metric |-> [Name |-> parts[2], Value |-> data.v,
                      Timestamp |-> ParseInt(parts[3]), Labels |-> data.l,
                      NodeID |-> data.n, Type |-> MetricTypeFromString(data.t),
                      Help |-> data.h, Unit |-> data.u]]

\* A sample is encoded as WriteMetrics does, and the item is decoded. A value
\* that does not marshal is not written.
roundTrip(metric) ==
    /\ lastCall' = {[op |-> "decode", sample |-> metric,
                     marshalled |-> ~encodeFails(metric),
                     decoded |-> IF encodeFails(metric) THEN [err |-> TRUE]
                                 ELSE decodeItem(splitKey(metric),
                                                 marshalValue(metric))]}
    /\ lastEval' = NoEval
    /\ lastWrite' = {}
    /\ UNCHANGED <<now, rules, alertVars, procs, ingestVars, nmNodes, storeVars,
                   healthVars, busVars, agentVars, collectorVars>>

\* ------------------------------------------- the accesses to a session
\* The handlers of the gRPC server step by step: each access to a field of a
\* Session object is a step of its own, made after the registry lock has been
\* released (the handlers hold sessionsMu only for the map lookup).

\* A step of a handler of the gRPC server.
sessionStep ==
    /\ lastEval' = NoEval
    /\ lastWrite' = {}
    /\ lastCall' = {}
    /\ UNCHANGED <<now, rules, alertVars, nextSession, storeVars, healthVars,
                   busVars, agentVars, collectorVars>>

\* StreamMetrics: the first message and the lookup in s.sessions under RLock.
StreamLookup(st, frame) ==
    /\ streams[st].pc = "first"
    /\ streams' = [streams EXCEPT ![st] =
          IF frame.SessionId = ""
          THEN [@ EXCEPT !.pc = "done", !.status = "InvalidArgument"]
          ELSE IF ~exists(frame.SessionId)
          THEN [@ EXCEPT !.pc = "done", !.status = "Unauthenticated"]
          ELSE [@ EXCEPT !.pc = "attach", !.sid = frame.SessionId,
                         !.node = sessions[frame.SessionId].NodeID]]
    /\ UNCHANGED <<sessions, procs, nodes, nmNodes>>
    /\ sessionStep

\* StreamMetrics: session.Stream = stream; session.LastSeen = time.Now(), and
\* go s.handleHeartbeat.
StreamAttach(st) ==
    /\ streams[st].pc = "attach"
    /\ touch(streams[st].sid, st)
    /\ streams' = [streams EXCEPT ![st].pc = "loop", ![st].hb = "run"]
    /\ UNCHANGED <<procs, nodes, nmNodes>>
    /\ sessionStep

\* StreamMetrics: stream.Recv() returns a batch.
StreamRecv(st) ==
    /\ streams[st].pc = "loop"
    /\ streams[st].recv < MaxFrames
    /\ streams' = [streams EXCEPT ![st].pc = "seen", ![st].recv = @ + 1]
    /\ UNCHANGED <<sessions, procs, nodes, nmNodes>>
    /\ sessionStep

\* StreamMetrics: session.LastSeen = time.Now(); go s.processMetrics, here
\* for a batch without samples.
StreamSeen(st) ==
    LET str == streams[st] IN
    /\ str.pc = "seen"
    /\ \E p \in Procs : procs[p].pc = "idle"
    /\ touch(str.sid, sessions[str.sid].Stream)
    /\ streams' = [streams EXCEPT ![st].pc = "loop"]
    /\ procs' = [procs EXCEPT ![freeProc] =
                    [IdleProc EXCEPT !.pc = "status", !.caller = "ingest",
                                     !.node = str.node]]
    /\ UNCHANGED <<nodes, nmNodes>>
    /\ sessionStep

\* The goroutine of a Heartbeat RPC between its lookup and its write.
HeartbeatProc(sessionID) ==
    [pc |-> "touch", caller |-> "heartbeat", sid |-> sessionID,
     node |-> sessions[sessionID].NodeID, metrics |-> <<>>, done |-> {},
     stream |-> 0, seq |-> 0, auth |-> TRUE]

\* GRPCServer.Heartbeat: the lookup in s.sessions under RLock.
HeartbeatLookup(p, sessionID) ==
    /\ procs[p].pc = "idle"
    /\ procs' = [procs EXCEPT ![p] =
                    IF exists(sessionID) THEN HeartbeatProc(sessionID)
                    ELSE IdleProc]
    /\ UNCHANGED <<sessions, streams, nodes, nmNodes>>
    /\ sessionStep

\* GRPCServer.Heartbeat: session.LastSeen = time.Now() and the status update.
HeartbeatTouch(p) ==
    /\ procs[p].caller = "heartbeat"
    /\ procs[p].pc = "touch"
    /\ sessions' = [sessions EXCEPT ![procs[p].sid].LastSeen = now]
    /\ UpdateNodeStatus(procs[p].node, Healthy)
    /\ procs' = [procs EXCEPT ![p] = IdleProc]
    /\ UNCHANGED streams
    /\ sessionStep

\* handleHeartbeat: the ticker fires.
TickerFires(st) ==
    /\ streams[st].hb = "run"
    /\ streams' = [streams EXCEPT ![st].hb = "check"]
    /\ UNCHANGED <<sessions, procs, nodes, nmNodes>>
    /\ sessionStep

\* handleHeartbeat: time.Since(session.LastSeen) is read and compared.
HeartbeatRead(st) ==
    LET str == streams[st] IN
    /\ str.hb = "check"
    /\ IF now - sessions[str.sid].LastSeen > HeartbeatTimeout
       THEN /\ UpdateNodeStatus(str.node, Unhealthy)
            /\ streams' = [streams EXCEPT ![st].hb = "done"]
       ELSE /\ streams' = [streams EXCEPT ![st].hb = "run"]
            /\ UNCHANGED <<nodes, nmNodes>>
    /\ UNCHANGED <<sessions, procs>>
    /\ sessionStep

\* The clock of the step by step handlers.
SessionTick ==
    /\ Advance(MaxSessionTime)
    /\ lastEval' = NoEval
    /\ lastWrite' = {}
    /\ lastCall' = {}
    /\ UNCHANGED <<rules, alertVars, procs, ingestVars, nmNodes, storeVars,
                   healthVars, busVars, agentVars, collectorVars>>

\* The accesses to session fields that are under way: the thread, the
\* session, the field, and whether it is a write.
Access(thread, sessionID, field, write) ==
    [thread |-> thread, session |-> sessionID, field |-> field, write |-> write]

accesses ==
    {Access(<<"stream", st>>, streams[st].sid, "Stream", TRUE) :
        st \in {x \in Streams : streams[x].pc = "attach"}}
    \cup {Access(<<"stream", st>>, streams[st].sid, "LastSeen", TRUE) :
        st \in {x \in Streams : streams[x].pc \in {"attach", "seen"}}}
    \cup {Access(<<"checker", st>>, streams[st].sid, "LastSeen", FALSE) :
        st \in {x \in Streams : streams[x].hb = "check"}}
    \cup {Access(<<"rpc", p>>, procs[p].sid, "LastSeen", TRUE) :
        p \in {x \in Procs : procs[x].caller = "heartbeat"}}

\* ------------------------------------------------------ the specifications
\* The node managers and the WebSocket server after construction.
InitHealthBus ==
    /\ lastCall = {}
    /\ srvNodes = <<>>
    /\ lastBeat = <<>>
    /\ marks = <<>>
    /\ broadcast = <<>>
    /\ clients = {}
    /\ conns = [c \in Clients |-> NoClient]
    /\ clientsMu = FreeMutex
    /\ worker = IdleWorker
    /\ wsProcs = [c \in Clients |-> NoProc]
    /\ wsServer = NewWebSocketServer

Init ==
    /\ InitHealthBus
    /\ InitAgent
    /\ InitCollector
    /\ now = 0
    /\ rules = loadDefaultRules
    /\ alerts = <<>>
    /\ activeAlerts = <<>>
    /\ savedAlerts = <<>>
    /\ labelMaps = [n \in DOMAIN loadDefaultRules |-> ConfiguredLabels]
    /\ dispatched = <<>>
    /\ nextAlert = 0
    /\ procs = [p \in Procs |-> IdleProc]
    /\ lastEval = NoEval
    /\ sessions = <<>>
    /\ nextSession = 0
    /\ streams = [st \in Streams |-> NoStream]
    /\ nodes = <<>>
    /\ nmNodes = <<>>
    /\ compression = FALSE
    /\ store = <<>>
    /\ blobs = {}
    /\ committed = [st \in Streams |-> {}]
    /\ lastWrite = {}

Batches(S) == UNION {[1..n -> S] : n \in 1..MaxBatch}

\* The alert engine driven through its API: concurrent CheckMetrics calls for
\* the nodes N with samples of the values V, AddRule, RemoveRule, and time.
AlertNext(N, V) ==
    \/ \E p \in Procs, n \in N, ms \in Batches({Metric(CPU, v, 1) : v \in V}) :
          CheckMetrics(p, n, ms)
    \/ \E p \in Procs : CheckMetricsStep(p)
    \/ \E r \in AddableRules : AddRule(r)
    \/ \E n \in {r.Name : r \in AddableRules} : RemoveRule(n)
    \/ Tick

NextAlert == AlertNext({"n1"}, {50, 90, 95})

SpecAlert == Init /\ [][NextAlert]_vars

\* The alert engine with its goroutines scheduled and samples that keep
\* arriving: a CheckMetrics call that has started takes its next iteration,
\* and a sample below every threshold is evaluated for n1 again and again.
checkStep == \E p \in Procs : CheckMetricsStep(p)
calmCheck == \E p \in Procs : CheckMetrics(p, "n1", <<Metric(CPU, 50, 1)>>)

SpecAlertFair == SpecAlert /\ WF_vars(checkStep) /\ WF_vars(calmCheck)

\* The alert engine with restarts of the server.
NextAlertRestart == NextAlert \/ Restart

SpecAlertRestart == Init /\ [][NextAlertRestart]_vars

NextAlertNodes == AlertNext(Nodes, {50, 90})

SpecAlertNodes == Init /\ [][NextAlertNodes]_vars

MaxBatchLen == 2

\* The frames a client sends.
IngestBatches ==
    { <<Metric(CPU, 90, 0)>>,
      <<Metric("cpu", NaN, 7), Metric("cpu", 42, 7)>> }

SessionIDs == {GenerateSessionID(i) : i \in 1..MaxSessions} \cup {"", "bogus"}

Frames == [SessionId : SessionIDs, Metrics : IngestBatches]

\* The ingest server: registrations, streams, and the processMetrics
\* goroutines started for the batches.
NextIngest ==
    \/ \E n \in {"n1", ""} : Register(n)
    \/ \E st \in Streams : OpenStream(st)
    \/ \E st \in Streams, f \in Frames : RecvFirst(st, f)
    \/ \E st \in Streams : RecvFirstError(st)
    \/ \E st \in Streams, f \in Frames : RecvBatch(st, f)
    \/ \E st \in Streams : RecvClosed(st)
    \/ \E p \in Procs, fail \in 0..MaxBatchLen : ProcessWrite(p, fail)
    \/ \E p \in Procs : CheckMetricsStep(p)
    \/ \E p \in Procs : ProcessStatus(p)

SpecIngest == Init /\ [][NextIngest]_vars

\* The storage layer driven through TimeSeriesDB.WriteMetrics, with and
\* without compression.
StoreSamples ==
    {Metric("cpu", v, t) : v \in {NaN, 42}, t \in {0, 7}}

StoreWrite(metrics, fail) ==
    /\ WriteMetrics(metrics, fail, WriteCall(metrics, 0, 0, TRUE))
    /\ lastEval' = NoEval
    /\ lastCall' = {}
    /\ UNCHANGED <<healthVars, busVars, agentVars, collectorVars>>
    /\ UNCHANGED <<now, rules, alertVars, procs, ingestVars, nmNodes,
                   compression, committed>>

InitStore ==
    /\ InitHealthBus
    /\ InitAgent
    /\ InitCollector
    /\ compression \in BOOLEAN
    /\ now = 0
    /\ rules = loadDefaultRules
    /\ alerts = <<>>
    /\ activeAlerts = <<>>
    /\ savedAlerts = <<>>
    /\ labelMaps = [n \in DOMAIN loadDefaultRules |-> ConfiguredLabels]
    /\ dispatched = <<>>
    /\ nextAlert = 0
    /\ procs = [p \in Procs |-> IdleProc]
    /\ lastEval = NoEval
    /\ sessions = <<>>
    /\ nextSession = 0
    /\ streams = [st \in Streams |-> NoStream]
    /\ nodes = <<>>
    /\ nmNodes = <<>>
    /\ store = <<>>
    /\ blobs = {}
    /\ committed = [st \in Streams |-> {}]
    /\ lastWrite = {}

NextStore ==
    \E ms \in UNION {[1..n -> StoreSamples] : n \in 0..MaxBatchLen},
       fail \in 0..MaxBatchLen : StoreWrite(ms, fail)

SpecStore == InitStore /\ [][NextStore]_vars

\* The storage written by processMetrics for the sessions of two nodes: the
\* batches carry the node ID of the session they came in.
NodeSamples ==
    {convert(Metric("cpu", 42, 7), "n1"), convert(Metric("cpu", 50, 7), "n2")}

NextStoreNodes ==
    \E ms \in UNION {[1..n -> NodeSamples] : n \in 0..MaxBatchLen},
       fail \in 0..MaxBatchLen : StoreWrite(ms, fail)

SpecStoreNodes == InitStore /\ [][NextStoreNodes]_vars

\* The WebSocket server: publishers, arriving and leaving clients with their
\* subscriptions and pings, and the broadcast worker.
BusMetrics == {<<>>, <<NaN>>}
BusAlert == [Value |-> 42, Labels |-> [node |-> "n1"]]
ClientMessages ==
    {[Type |-> "subscribe", Topics |-> {"all"}],
     [Type |-> "subscribe", Topics |-> {"alert"}],
     [Type |-> "unsubscribe", Topics |-> {"all"}],
     [Type |-> "ping", Topics |-> {}]}

NextBus ==
    \/ \E metrics \in BusMetrics : BroadcastMetrics(metrics)
    \/ BroadcastAlert(BusAlert)
    \/ BroadcastNodeStatus(Node("n1"))
    \/ \E c \in Clients : ServeHTTP(c)
    \/ \E c \in Clients : addClient(c)
    \/ \E c \in Clients, msg \in ClientMessages : handleMessage(c, msg)
    \/ \E c \in Clients : sendPong(c)
    \/ \E c \in Clients : ReadError(c)
    \/ \E c \in Clients : writePump(c)
    \/ \E p \in Clients \cup {Worker} : removeClient(p)
    \/ WorkerTake
    \/ WorkerRLock
    \/ \E c \in Clients : WorkerDeliver(c)
    \/ WorkerRUnlock

SpecBus == Init /\ [][NextBus]_vars

\* The WebSocket server with Close: node status broadcasts, clients that
\* subscribe to everything and ping, and the server closing.
CloseMessages ==
    {[Type |-> "subscribe", Topics |-> {"all"}], [Type |-> "ping", Topics |-> {}]}

NextBusClose ==
    \/ BroadcastNodeStatus(Node("n1"))
    \/ \E c \in Clients : ServeHTTP(c)
    \/ \E c \in Clients : addClient(c)
    \/ \E c \in Clients, msg \in CloseMessages : handleMessage(c, msg)
    \/ \E c \in Clients : sendPong(c)
    \/ \E c \in Clients : ReadError(c)
    \/ \E c \in Clients : writePump(c)
    \/ \E p \in Clients \cup {Worker} : removeClient(p)
    \/ WorkerTake
    \/ WorkerRLock
    \/ \E c \in Clients : WorkerDeliver(c)
    \/ WorkerRUnlock
    \/ CloseCancel
    \/ WorkerReturn
    \/ CloseClients

SpecBusClose == Init /\ [][NextBusClose]_vars

\* The broadcast worker is a goroutine of its own: it takes its next step
\* whenever it can.
WorkerStep ==
    \/ WorkerTake
    \/ WorkerRLock
    \/ \E c \in Clients : WorkerDeliver(c)
    \/ WorkerRUnlock
    \/ removeClient(Worker)

SpecBusFair == SpecBus /\ WF_vars(WorkerStep)

\* The agent: its collectors, the batcher, the heartbeat and Stop.
CollectSizes == {1, 3}

NextAgent ==
    \/ \E connects \in BOOLEAN : Start(connects)
    \/ \E c \in Collectors, size \in CollectSizes, failed \in BOOLEAN :
           runCollector(c, size, failed)
    \/ \E c \in Collectors : collectorStopped(c)
    \/ processReceive
    \/ processTimer
    \/ processStopped
    \/ timerFires
    \/ heartbeat
    \/ heartbeatStopped
    \/ \E i \in 1..MaxReconnects, connects \in BOOLEAN : reconnect(i, connects)
    \/ stopCancel
    \/ \E expired \in BOOLEAN : stopClose(expired)
    \/ agentTick

SpecAgent == Init /\ [][NextAgent]_vars

\* The system collector: its network and disk I/O collections, and time.
NextCollector ==
    \/ \E counters \in [Interfaces -> Counters], failed \in BOOLEAN :
           collectNetworkMetrics(counters, failed)
    \/ \E counters \in [Devices -> Counters], failed \in BOOLEAN :
           collectDiskMetrics(counters, failed)
    \/ collectorTick

SpecCollector == Init /\ [][NextCollector]_vars

\* The encoding of the store applied to samples of every shape.
CodecSamples ==
    [Name : {"cpu", "node:cpu", "job:7"}, Value : {42, NaN},
     Timestamp : Timestamps, Labels : {NoLabels, [collector |-> "cpu"]}, NodeID : {"n1"},
     Type : MetricTypeGauge..(MetricTypeSummary + 1), Help : {"", "usage"},
     Unit : {"", "percent"}]

NextCodec == \E metric \in CodecSamples : roundTrip(metric)

SpecCodec == Init /\ [][NextCodec]_vars

\* A reconnect loop is a goroutine of its own: it takes its next round whenever
\* it can.
reconnectStep ==
    \E i \in 1..MaxReconnects, connects \in BOOLEAN : reconnect(i, connects)

SpecAgentFair == SpecAgent /\ WF_vars(reconnectStep)

\* The session IDs the agent can come to hold.
AgentSessionIDs == {GenerateSessionID(i) : i \in 1..(MaxReconnects + 1)}

\* Node health in the running server: registrations, streams, heartbeats,
\* the timeout checks of the streams and the sweeps of StartHealthCheck.
HealthFrames == [SessionId : SessionIDs \ {""}, Metrics : {<<>>}]

NextHealth ==
    \/ Register("n1")
    \/ \E st \in Streams : OpenStream(st)
    \/ \E st \in Streams, f \in HealthFrames : RecvFirst(st, f)
    \/ \E st \in Streams : RecvClosed(st)
    \/ \E sid \in SessionIDs : Heartbeat(sid)
    \/ \E st \in Streams : HeartbeatCheck(st)
    \/ CheckHealth(HeartbeatTimeout)
    \/ HealthTick

SpecHealth == Init /\ [][NextHealth]_vars

\* The handlers of the gRPC server step by step.
NextSession ==
    \/ Register("n1")
    \/ \E st \in Streams : OpenStream(st)
    \/ \E st \in Streams, f \in HealthFrames : StreamLookup(st, f)
    \/ \E st \in Streams : StreamAttach(st)
    \/ \E st \in Streams : StreamRecv(st)
    \/ \E st \in Streams : StreamSeen(st)
    \/ \E st \in Streams : RecvClosed(st)
    \/ \E p \in Procs : ProcessStatus(p)
    \/ \E p \in Procs, sid \in SessionIDs : HeartbeatLookup(p, sid)
    \/ \E p \in Procs : HeartbeatTouch(p)
    \/ \E st \in Streams : TickerFires(st)
    \/ \E st \in Streams : HeartbeatRead(st)
    \/ SessionTick

SpecSession == Init /\ [][NextSession]_vars

\* The goroutines of the server take their steps whenever they can: the
\* handleHeartbeat tickers, the health monitor, and the clock. The steps of
\* the agents (Register, the stream, Heartbeat) are not forced.
heartbeatStep == \E st \in Streams : HeartbeatCheck(st)
monitorStep == CheckHealth(HeartbeatTimeout)

SpecHealthFair ==
    /\ SpecHealth
    /\ WF_vars(heartbeatStep)
    /\ WF_vars(monitorStep)
    /\ WF_vars(HealthTick)

\* The node managers driven through their methods: NodeManager.RegisterNode is
\* called for the node on either node manager, next to the registrations and
\* heartbeats of the gRPC server and the sweeps.
NextNodeMgr ==
    \/ Register("n1")
    \/ \E mgr \in {"grpc", "server"} : RegisterNode(mgr, "n1")
    \/ \E sid \in SessionIDs : Heartbeat(sid)
    \/ CheckHealth(HeartbeatTimeout)
    \/ HealthTick

SpecNodeMgr == Init /\ [][NextNodeMgr]_vars

\* The query path: single samples written through WriteMetrics and queries
\* through TimeSeriesDB.QueryMetrics.
LabelsA == [collector |-> "cpu", node |-> "a"]
LabelsB == [collector |-> "cpu", node |-> "b"]

QuerySamples ==
    {[Metric("cpu", v, t) EXCEPT !.Labels = l] :
        v \in {0, 4}, t \in {8, 9, 10}, l \in {LabelsA, LabelsB}}

Queries ==
    {Query("cpu", l, r[1], r[2], step) :
        l \in {NoLabels, LabelsA}, r \in {<<8, 10>>, <<9, 9>>}, step \in {1, 4}}

\* One call of TimeSeriesDB.QueryMetrics; the store is only read.
StoreQuery(query) ==
    /\ \E pick \in firstKeys(query) :
          lastCall' = {[op |-> "query", query |-> query, pick |-> pick,
                        result |-> QueryMetrics(query, pick)]}
    /\ lastEval' = NoEval
    /\ lastWrite' = {}
    /\ UNCHANGED <<now, rules, alertVars, procs, ingestVars, nmNodes,
                   storeVars, healthVars, busVars, agentVars, collectorVars>>

NextQuery ==
    \/ \E m \in QuerySamples, fail \in 0..MaxBatch : StoreWrite(<<m>>, fail)
    \/ \E q \in Queries : StoreQuery(q)

SpecQuery == Init /\ [][NextQuery]_vars

\* ------------------------------------------------------------------ claims
RuleNames == {r.Name : r \in defaultRules \cup AddableRules}

\* The number of notifications dispatched for alert id in state s.
DispatchesIn(d, id, s) == IF id \in DOMAIN d THEN d[id][s] ELSE 0
Dispatches(id, s) == DispatchesIn(dispatched, id, s)

\* C1: at every instant the active table holds at most one alert in state
\* pending or firing for each (node_id, rule_name) pair, under any
\* interleaving of concurrent CheckMetrics calls.
C1_AtMostOneActivePerKey ==
    \A n \in Nodes, r \in RuleNames :
        Cardinality({k \in DOMAIN activeAlerts :
                        LET a == alerts[activeAlerts[k]] IN
                        /\ a.Node = n
                        /\ a.Name = r
                        /\ a.State \in {Pending, Firing}}) <= 1

\* Two CheckMetrics calls for the same node are in flight while an alert of
\* that node is in the active table.
C1_Witness ==
    \E p \in Procs, q \in Procs, k \in DOMAIN activeAlerts :
        /\ p # q
        /\ procs[p].pc = "check"
        /\ procs[q].pc = "check"
        /\ procs[p].node = procs[q].node
        /\ alerts[activeAlerts[k]].Node = procs[p].node

\* C2: for a rule with for_duration D > 0, a satisfying sample evaluated at a
\* time >= active_at + D while the alert is pending moves the alert to firing,
\* persists it and dispatches a firing notification.
C2_PendingBecomesFiring ==
    \A e \in lastEval :
        ( /\ e.holds
          /\ e.before = Pending
          /\ rules[e.rule].For > 0
          /\ now - alerts[e.id].ActiveAt >= rules[e.rule].For )
        => /\ alerts[e.id].State = Firing
           /\ savedAlerts[e.id].State = Firing
           /\ Dispatches(e.id, Firing) = 1

\* C3: a non-satisfying sample evaluated while the alert is still pending
\* (before D has elapsed) deletes the entry from the active table and no
\* notification of any kind is dispatched for the alert.
C3_PendingBreakIsSilent ==
    \A e \in lastEval :
        ( /\ ~e.holds
          /\ e.before = Pending
          /\ now - alerts[e.id].ActiveAt < rules[e.rule].For )
        => /\ alertKey(e.node, e.rule) \notin DOMAIN activeAlerts
           /\ \A s \in AlertStates : Dispatches(e.id, s) = 0

\* C4: for an enabled rule with for_duration = 0 and a key without an active
\* alert, the first satisfying sample creates the alert directly in state
\* firing, stores it in the active table and dispatches a firing notification.
C4_InstantRuleFiresAtOnce ==
    \A e \in lastEval :
        (e.holds /\ e.before = "none" /\ rules[e.rule].For = 0)
        => LET key == alertKey(e.node, e.rule) IN
           /\ rules[e.rule].Enabled
           /\ key \in DOMAIN activeAlerts
           /\ activeAlerts[key] = e.id
           /\ alerts[e.id].State = Firing
           /\ alerts[e.id].Node = e.node
           /\ alerts[e.id].Name = e.rule
           /\ alerts[e.id].Value = e.value
           /\ Dispatches(e.id, Firing) = 1
           /\ Dispatches(e.id, Pending) = 0

\* A satisfying sample has just created a firing alert for a rule with
\* For = 0.
C4_Witness ==
    \E e \in lastEval :
        /\ e.holds
        /\ e.before = "none"
        /\ rules[e.rule].For = 0
        /\ alerts[e.id].State = Firing

\* C5: a non-satisfying sample evaluated for a key whose alert is firing
\* resolves the alert, sets resolved_at, persists it, dispatches exactly one
\* resolution notification and removes the key from the active table; a later
\* non-satisfying sample for the key changes nothing.
C5_FiringResolves ==
    /\ \A e \in lastEval :
          /\ (~e.holds /\ e.before = Firing)
             => /\ alerts[e.id].State = Resolved
                /\ alerts[e.id].ResolvedAt = {now}
                /\ savedAlerts[e.id] = alerts[e.id]
                /\ Dispatches(e.id, Resolved) = 1
                /\ alertKey(e.node, e.rule) \notin DOMAIN activeAlerts
          /\ (~e.holds /\ e.before = "none") => ~e.changed
    /\ \A id \in DOMAIN alerts : Dispatches(id, Resolved) <= 1

\* A non-satisfying sample has just been evaluated for a key whose alert fired
\* and was resolved earlier.
C5_Witness ==
    \E e \in lastEval, id \in DOMAIN alerts :
        /\ ~e.holds
        /\ e.before = "none"
        /\ alerts[id].Node = e.node
        /\ alerts[id].Name = e.rule
        /\ alerts[id].State = Resolved
        /\ Dispatches(id, Firing) = 1
        /\ Dispatches(id, Resolved) = 1

\* C6: over the lifetime of an alert a firing notification is dispatched
\* exactly when the alert enters state firing, which it does at most once; a
\* satisfying sample evaluated while the alert is firing updates its value and
\* persists it without another notification.
C6_OneFiringNotification ==
    [][\A id \in DOMAIN alerts' :
          LET was == id \in DOMAIN alerts /\ alerts[id].State = Firing
              is == alerts'[id].State = Firing
          IN /\ DispatchesIn(dispatched', id, Firing) =
                   Dispatches(id, Firing) + (IF is /\ ~was THEN 1 ELSE 0)
             /\ (id \in DOMAIN alerts /\ alerts[id].State = Resolved)
                   => alerts'[id].State = Resolved
             /\ \A e \in lastEval' :
                   (e.id = id /\ e.holds /\ e.before = Firing)
                   => /\ is
                      /\ alerts'[id].Value = e.value
                      /\ savedAlerts'[id] = alerts'[id]
      ]_vars

\* A satisfying sample has changed the value of an alert that was firing.
C6_Witness ==
    \E e \in lastEval :
        /\ e.holds
        /\ e.before = Firing
        /\ e.changed
        /\ alerts[e.id].Value = e.value
        /\ Dispatches(e.id, Firing) = 1

\* C7: the batches received on one stream are committed to storage in the
\* order in which the stream handler received them: when a batch is committed,
\* no batch received later on the same stream has been committed before it.
C7_CommitOrderIsReceiveOrder ==
    \A w \in lastWrite :
        (w.stream \in Streams /\ w.stored # {})
        => \A seq \in committed[w.stream] : seq <= w.seq

\* C8: a frame causes a storage write only if its session_id was in the
\* session registry when the stream handler received it.
C8_UnknownSessionHasNoEffect ==
    \A w \in lastWrite :
        (w.stream \in Streams /\ w.stored # {}) => w.auth

\* C9: every sample the ingest server has written to storage has a timestamp
\* greater than zero and a non-empty node id.
C9_StoredSamplesStamped ==
    \A sample \in StoredSamples :
        sample.Timestamp > 0 /\ sample.NodeID # ""

\* C10: WriteMetrics of a batch is all-or-nothing: when it has returned,
\* either every sample of the batch is stored or none is.
C10_BatchAllOrNothing ==
    \A w \in lastWrite :
        w.stored = {} \/ w.stored = 1..Len(w.batch)

\* The stored samples that the code lets contribute to the bucket of a series.
Contributors(call, labels, bucket) ==
    LET q == call.query
        filters == parseSimpleQuery(queryStr(q, call.pick)).filters
    IN {k \in prefixKeys(q.MetricName) :
          /\ k[3] >= q.StartTime
          /\ k[3] <= q.EndTime
          /\ matchesFilters(decodeMetric(k), filters)
          /\ store[k].l = labels
          /\ Truncate(k[3], q.Step) = bucket}

RECURSIVE SumValues(_)
SumValues(keys) ==
    IF keys = {} THEN 0
    ELSE LET k == CHOOSE x \in keys : TRUE IN store[k].v + SumValues(keys \ {k})

\* C11: after sample (m, v, t, labels) was written, the query (m, labels,
\* [t, t], step 1) returns exactly one series, whose single sample is (t, v).
\* Stated for a sample that was stored while no other stored sample of m at t
\* carries all of its labels, so that one series is what equality filters on
\* every label select.
C11_QueryRoundTrip ==
    \A w \in lastWrite :
        LET m == w.batch[1]
            q == Query(m.Name, m.Labels, m.Timestamp, m.Timestamp, 1)
        IN ( /\ Len(w.batch) = 1
             /\ w.stored = {1}
             /\ \A k \in prefixKeys(m.Name) :
                   (k[3] = m.Timestamp /\ k # encodeMetricKey(m))
                   => ~matchesFilters(decodeMetric(k), m.Labels) )
           => \A pick \in firstKeys(q) :
                 QueryMetrics(q, pick) =
                    {[Labels |-> m.Labels,
                      Samples |-> <<[Timestamp |-> m.Timestamp,
                                     Value |-> Exact(m.Value)]>>]}

\* C12: every series of a query result carries labels that satisfy all of the
\* query's equality filters, every bucket of it comes from a time inside
\* [start, end], and every evaluation of the query over the same store gives
\* the same result.
C12_AllFiltersApplied ==
    \A c \in lastCall :
        c.op = "query"
        => /\ \A series \in c.result :
                 /\ matchesFilters(series, c.query.Labels)
                 /\ \A i \in 1..Len(series.Samples) :
                       \E t \in c.query.StartTime..c.query.EndTime :
                          Truncate(t, c.query.Step) = series.Samples[i].Timestamp
           /\ \A pick \in firstKeys(c.query) :
                 QueryMetrics(c.query, pick) = c.result

\* C13: the value a query returns for a bucket of a series is the arithmetic
\* mean of the N stored samples that fall into the bucket.
C13_BucketIsMean ==
    \A c \in lastCall :
        c.op = "query"
        => \A series \in c.result :
              \A i \in 1..Len(series.Samples) :
                 LET sample == series.Samples[i]
                     from == Contributors(c, series.Labels, sample.Timestamp)
                 IN sample.Value.num * Cardinality(from) =
                       SumValues(from) * sample.Value.den

\* C14: a node that registered and then sends no heartbeat and no batch is
\* UNHEALTHY (or OFFLINE) after a sweep that runs when its last heartbeat is
\* older than the timeout, and OFFLINE after a sweep that runs when it is
\* older than three times the timeout.
C14_SilentNodeIsMarked ==
    \A call \in lastCall :
        call.op = "sweep" =>
            \A n \in DOMAIN lastBeat :
                LET since == now - lastBeat[n].at
                IN /\ since > call.timeout =>
                          statusOf(n) \in {Unhealthy, Offline}
                   /\ since > call.timeout * 3 => statusOf(n) = Offline

\* C15: within one breach of the heartbeat timeout a node is set UNHEALTHY and
\* persisted exactly once: never more than once, and once when a sweep has run
\* during the breach.
C15_UnhealthyOncePerBreach ==
    \A n \in DOMAIN marks :
        /\ marks[n] <= 1
        /\ \A call \in lastCall :
               (call.op = "sweep" /\ now - lastBeat[n].at > call.timeout)
                   => marks[n] = 1

\* C16: a heartbeat that finds the node UNHEALTHY returns its status to
\* HEALTHY, and the node is HEALTHY after a sweep that runs while that
\* heartbeat is still within the timeout.
C16_HeartbeatRecovers ==
    \A call \in lastCall :
        /\ (call.op = "heartbeat" /\ call.ok /\ call.was = Unhealthy)
               => statusOf(call.node) = Healthy
        /\ call.op = "sweep" =>
               \A n \in DOMAIN lastBeat :
                   (lastBeat[n].recovered /\ now - lastBeat[n].at <= call.timeout)
                       => statusOf(n) = Healthy

\* C17: every step that changes the persisted status of a node publishes a
\* node_status message for that node: it is appended to the broadcast channel,
\* unless the channel is full.
C17_StatusChangePublished ==
    [][\A n \in DOMAIN nodes :
           (n \in DOMAIN nodes' /\ nodes'[n].Status # nodes[n].Status)
               => \/ Len(broadcast) >= BroadcastCap
                  \/ broadcast' = Append(broadcast,
                                         WSMessage("node_status", <<>>, n))]_vars

\* C18: a publish never blocks: in every state of the running server, whatever
\* the worker and the subscribers are doing and however full the channel is,
\* each Broadcast method can take its step; the channel never holds more than
\* its capacity, and a publish that found it full left it as it was.
C18_PublishNeverBlocks ==
    /\ Len(broadcast) <= BroadcastCap
    /\ ~Panicked =>
           /\ \A metrics \in BusMetrics : ENABLED BroadcastMetrics(metrics)
           /\ ENABLED BroadcastAlert(BusAlert)
           /\ ENABLED BroadcastNodeStatus(Node("n1"))
    /\ \A call \in lastCall :
           (call.op = "publish" /\ call.full) => Len(broadcast) = BroadcastCap

\* A publish found the channel full and returned, while the worker was stuck
\* in removeClient and a subscriber's send channel was full.
C18_Witness ==
    /\ lastCall = {[op |-> "publish", full |-> TRUE]}
    /\ worker.pc = "lock"
    /\ \E c \in clients : Len(conns[c].send) = SendCap

\* C19: when the worker finds a subscriber whose send channel is full, the
\* subscriber is evicted (out of the map, channel closed once, connection
\* closed) and the worker goes on with the range.
C19_FullSubscriberEvicted ==
    \A c \in Clients :
        (worker.pc = "lock" /\ worker.client = c)
            ~> (/\ c \notin clients
                /\ conns[c].closed = 1
                /\ ~conns[c].open
                /\ worker.pc # "lock")

\* C20: the worker never deadlocks: whenever it is busy with a message, it
\* eventually is back in its select for the next one.
C20_WorkerReturnsToSelect ==
    (worker.pc # "select") ~> (worker.pc = "select")

C22_BufferLatencyBounded ==
    /\ agentProcs.pm = "run" =>
           \A i \in 1..Len(batch) : now - batch[i] <= MaxBatchWait
    /\ \A call \in lastCall :
           call.op = "send" =>
               /\ now - call.oldest <= MaxBatchWait
               /\ batch = <<>>
               /\ agentProcs.pm = "run" =>
                      /\ batchTimer.armed
                      /\ batchTimer.at = now + MaxBatchWait

\* The timer flushed a buffer below the batch size whose first sample had
\* waited for exactly the maximal batch wait.
C22_Witness ==
    \E call \in lastCall :
        /\ call.op = "send"
        /\ call.size < BatchSize
        /\ now - call.oldest = MaxBatchWait
        /\ agentProcs.pm = "run"

\* C23: after a heartbeat that failed while the agent held session ID s, the
\* agent eventually holds a session ID different from s.
C23_FailedHeartbeatReregisters ==
    \A s \in AgentSessionIDs :
        (lastCall = {[op |-> "beat", ok |-> FALSE, session |-> s]})
            ~> (agent.sessionID # s)

\* The rate samples and the absolute counters among the samples ms.
RateNames == {"system_network_receive_bytes_per_second",
              "system_disk_read_bytes_per_second"}
rates(ms) == {i \in 1..Len(ms) : ms[i].Name \in RateNames}
totals(ms) == {i \in 1..Len(ms) : ms[i].Name \notin RateNames}

\* C24: when a collection reads a counter c2 at t2 whose cached reading is c1
\* at t1, with c2 >= c1 and t2 > t1, it emits one rate sample for that source
\* and its value is (c2 - c1) / (t2 - t1) per second.
C24_RateIsDeltaOverInterval ==
    \A call \in lastCall :
        (call.op \in {"network", "disk"} /\ ~call.failed) =>
            \A k \in DOMAIN call.last :
                LET c1 == call.last[k].Bytes
                    t1 == call.last[k].at
                    c2 == call.io[k].Bytes
                    t2 == call.io[k].at
                    ms == call.metrics[k]
                IN (c2 >= c1 /\ t2 > t1) =>
                       /\ Cardinality(rates(ms)) = 1
                       /\ \A i \in rates(ms) :
                              ms[i].Value = Quotient(c2 - c1, t2 - t1)

\* C25: when a collection reads a counter below its cached reading, it emits
\* no rate sample for that source, the network collection still emits the
\* absolute counter, and the cache holds the new reading afterwards.
C25_ResetEmitsNoRate ==
    \A call \in lastCall :
        (call.op \in {"network", "disk"} /\ ~call.failed) =>
            \A k \in DOMAIN call.last :
                call.io[k].Bytes < call.last[k].Bytes =>
                    /\ rates(call.metrics[k]) = {}
                    /\ call.op = "network" => totals(call.metrics[k]) # {}
                    /\ call.op = "network" => lastNet[k] = call.io[k]
                    /\ call.op = "disk" => lastDisk[k] = call.io[k]

\* The heartbeat of a session has expired: it was not seen for longer than
\* the heartbeat timeout.
expired(sessionID) == now - sessions[sessionID].LastSeen > HeartbeatTimeout

\* C26: a session in the registry whose heartbeat has expired, whether or not
\* it ever opened a stream, is eventually removed from the registry.
C26_ExpiredSessionRemoved ==
    \A sessionID \in {GenerateSessionID(i) : i \in 1..MaxSessions} :
        (exists(sessionID) /\ expired(sessionID)) ~> ~exists(sessionID)

\* C27: when the storage write of a batch fails, the stream and the session
\* registry are left as they are, and processMetrics goes on to the alert
\* engine with the samples of the batch (and from there to the status update).
C27_WriteFailureKeepsStream ==
    [][\A p \in Procs :
          (procs[p].pc = "write" /\ procs'[p] # procs[p]
             /\ \E w \in lastWrite' : w.err) =>
              LET pr == procs[p]
                  metrics == [i \in 1..Len(pr.metrics) |->
                                 convert(pr.metrics[i], pr.node)]
                  rest == SelectSeq(metrics, IsRelevant)
              IN /\ streams' = streams
                 /\ sessions' = sessions
                 /\ procs'[p].node = pr.node
                 /\ rest # <<>> => /\ procs'[p].pc = "check"
                                   /\ procs'[p].metrics = rest
                 /\ rest = <<>> => procs'[p].pc = "status"]_vars

\* On a stream still open and in the registry, the first batch was written
\* and not stored, and the second batch, received later, has just been stored.
C27_Witness ==
    \E w \in lastWrite :
        /\ w.seq = 2
        /\ ~w.err
        /\ committed[w.stream] = {2}
        /\ streams[w.stream].pc = "loop"
        /\ exists(streams[w.stream].sid)
        /\ \A p \in Procs : procs[p].stream = w.stream => procs[p].seq # 1

\* The batches the ingest server has received and not yet handed to the
\* store: one processMetrics goroutine each, started by the receive loop.
awaiting == {p \in Procs : procs[p].caller = "ingest" /\ procs[p].pc = "write"}

\* C28: the receive loop holds back while batches wait for the store: the
\* number of batches received and not yet written stays below the number the
\* agents can send, which here is the number of goroutines MaxCalls.
C28_AwaitingBatchesBounded == Cardinality(awaiting) < MaxCalls

\* C29: no batch the agent sends holds more samples than the batch size.
C29_SentBatchWithinBatchSize ==
    \A call \in lastCall : call.op = "send" => call.size <= BatchSize

\* C30: after an evaluation in which a sample satisfied a rule, the alert of
\* that node and rule in the active table carries the value of that sample,
\* also while the alert is pending.
C30_ValueIsLatestTriggering ==
    \A e \in lastEval :
        (e.holds /\ e.id \in DOMAIN alerts) => alerts[e.id].Value = e.value

\* The labels rule ruleName is configured with.
configured(ruleName) ==
    IF ruleName \in DOMAIN loadDefaultRules THEN ConfiguredLabels ELSE <<>>

\* C31: every alert in the active table carries the labels its rule is
\* configured with plus the node and the metric it was created for.
C31_AlertCarriesItsOwnLabels ==
    \A key \in DOMAIN activeAlerts :
        LET alert == alerts[activeAlerts[key]] IN
        labelMaps[alert.Labels] =
            put(put(configured(alert.Name), "node", alert.Node),
                "metric", alert.Metric)

\* C32: for every sample whose value marshals and whose kind is one of the
\* four kinds, decoding what encodeMetricKey and encodeMetricValue produce
\* yields the sample again, whatever its metric name.
C32_EncodingRoundTrip ==
    \A call \in lastCall :
        ( /\ call.op = "decode"
          /\ call.marshalled
          /\ call.sample.Type \in MetricTypeGauge..MetricTypeSummary )
        => /\ ~call.decoded.err
           /\ call.decoded.metric = call.sample

\* The alerts the store holds as pending or firing.
persisted == {id \in DOMAIN savedAlerts : savedAlerts[id].State \in {Pending, Firing}}

\* C33: right after a restart the active table holds exactly the alerts
\* persisted as pending or firing, and the store never holds two pending or
\* firing alerts of the same node and rule.
C33_RestartRehydrates ==
    /\ lastCall = {[op |-> "restart"]} =>
           {activeAlerts[key] : key \in DOMAIN activeAlerts} = persisted
    /\ \A a, b \in persisted :
           (savedAlerts[a].Node = savedAlerts[b].Node
              /\ savedAlerts[a].Name = savedAlerts[b].Name) => a = b

\* C34: no two threads have accesses to the same field of the same session
\* under way at the same time, one of them a write.
C34_NoConcurrentSessionAccess ==
    \A a, b \in accesses :
        (a.thread # b.thread /\ a.session = b.session /\ a.field = b.field)
            => ~(a.write \/ b.write)

\* C35: the send channel of a client is closed at most once.
C35_SendClosedAtMostOnce == \A c \in Clients : conns[c].closed <= 1

\* C36: nothing is sent on the send channel of a client after the channel was
\* closed: no send panics.
C36_NoSendAfterClose == \A c \in Clients : ~conns[c].panic

\* C37: at most one reconnect loop of the agent runs at any time.
C37_OneReconnectLoop == Len(agentProcs.reconnects) <= 1

\* C38: metricsCh is closed only when every collector loop has returned, and
\* no collector loop sends on it once it is closed.
C38_ClosedAfterCollectorsReturn ==
    /\ agent.closed => \A c \in Collectors : agentProcs.collector[c] = "done"
    /\ ~agent.panic

\* What tells one sample from another: its name, timestamp, labels and node.
identity(sample) ==
    <<sample.Name, sample.Timestamp, sample.Labels, sample.NodeID>>

\* C39: a write never overwrites a different stored sample: every sample that
\* was stored before a step, whatever its node ID, is still stored after it.
C39_WriteKeepsOtherSamples ==
    [][\A s \in StoredSamples :
          \E t \in StoredSamples' : identity(t) = identity(s)]_vars

\* The alert under key is in the active table while its rule is not loaded,
\* or is loaded but disabled.
orphaned(key) ==
    /\ key \in DOMAIN activeAlerts
    /\ LET name == alerts[activeAlerts[key]].Name IN
           name \notin DOMAIN rules \/ ~rules[name].Enabled

\* C40: an alert in the active table whose rule is no longer loaded and
\* enabled does not stay like that for ever: it leaves the table, unless its
\* rule is loaded and enabled again.
C40_NoAlertOfUnloadedRuleStays ==
    \A n \in Nodes, r \in {"Instant"} \cup DOMAIN loadDefaultRules :
        orphaned(alertKey(n, r)) ~> ~orphaned(alertKey(n, r))
====
